---------------------------- MODULE Spec2Model ----------------------------
(***************************************************************************)
(* Kafka -> NAS -> S3 transfer service.                                    *)
(*                                                                         *)
(* One consumer thread (KafkaMessageConsumer.consume_and_process) polls a   *)
(* topic partition in batches, hands every record to                       *)
(* FileTransferService.process_message and commits on a True verdict.      *)
(* The broker keeps the committed offset of the consumer group; the        *)
(* consumer keeps its fetch position in memory.  The tracking ledger       *)
(* (SingleStore table NAS_File_Tracker), the object store (S3) and the     *)
(* dedup store (Redis) are durable and survive a restart of the process.   *)
(*                                                                         *)
(* Offsets are 0-based as in Kafka: the record at offset o is log[o + 1].  *)
(* A committed offset c acknowledges exactly the records with offset < c.  *)
(***************************************************************************)
EXTENDS Integers, Sequences, FiniteSets, TLC

----------------------------------------------------------------------------
(* Bounds of the model *)

\* number of records in the topic partition
MaxLog == 2

(* Program constants *)

\* KafkaConsumer(max_poll_records=10)
MaxPollRecords == 10

----------------------------------------------------------------------------
(* Messages: decoded JSON objects, modelled as functions from the keys     *)
(* that are present to their values.  EVENT_TIMESTAMP is the sequence of   *)
(* the date fields of its first blank-separated word: <<y, m, d>> when it  *)
(* parses with %Y-%m-%d, <<>> for the empty string, one field that is no   *)
(* date for a word strptime rejects, and one field of blanks for a string  *)
(* of whitespace only (str.split() returns no word of it).                 *)

\* the event of the specification's scenario
M1 ==
    [MESSAGE_ID |-> "m1", EVENT_TYPE |-> "BOM", ST_BOM_DOC_PATH |-> "share/folder",
     ST_BOM_FILE_NAME |-> "f.json", EVENT_TIMESTAMP |-> <<"2025", "01", "15">>]

\* the same event without ST_BOM_FILE_NAME
M3 ==
    [MESSAGE_ID |-> "m1", EVENT_TYPE |-> "BOM", ST_BOM_DOC_PATH |-> "share/folder",
     EVENT_TIMESTAMP |-> <<"2025", "01", "15">>]

\* the records a producer may have written; the same event may be written twice
Messages == {M1, M3}

EventIds == {"m1"}

\* the dates datetime.now() may return while the service runs
Dates == {<<"2025", "02", "01">>}

\* the dates datetime.now() may return on two days
Days == Dates \cup {<<"2025", "02", "02">>}

\* an EVENT_TIMESTAMP that strptime rejects with ValueError
Unparseable == <<"15/01/2025">>

\* an EVENT_TIMESTAMP of whitespace only
Blank == <<" ">>

\* a record value that json.loads rejects (JSONDecodeError)
BadJson ==
    [undecodable |-> "{"]

\* a record value that json.loads decodes to a list, which has no get()
NotObject ==
    [list |-> <<>>]

\* value_deserializer (consumer.py:76) returns a value for it
Decodable(value) ==
    value # BadJson

\* message_value.get(...) (consumer.py:176) does not raise AttributeError
IsObject(value) ==
    value # NotObject

Payloads == {M1, BadJson, NotObject}

\* dict.get(key, default)
Get(message, key, default) ==
    IF key \in DOMAIN message THEN message[key] ELSE default

\* "not message.get(field)": the key is absent or its value is empty
Falsy(message, key) ==
    key \notin DOMAIN message \/ message[key] = ""

----------------------------------------------------------------------------
(* SingleStoreClient: the ledger maps a MESSAGE_ID to the Status of its    *)
(* row, "none" when the table holds no row for it.  dbUp is the outcome of *)
(* _ensure_connection together with the execution of the statement.       *)

insert_created(led, message, dbUp) ==
    IF dbUp
    THEN [led EXCEPT ![Get(message, "MESSAGE_ID", "")] = "Created"]
    ELSE led

\* UPDATE ... WHERE MESSAGE_ID = %s changes the row only when it exists
update_status(led, message_id, status, dbUp) ==
    IF dbUp /\ led[message_id] # "none"
    THEN [led EXCEPT ![message_id] = status]
    ELSE led

\* update_processed that never reaches the table
update_processed_dropped(led, message_id, dbUp) ==
    led

update_processed(led, message_id, dbUp) ==
    update_status(led, message_id, "Processed", dbUp)

update_failed(led, message_id, dbUp) ==
    update_status(led, message_id, "Failed", dbUp)

----------------------------------------------------------------------------
(* S3Client.build_s3_path: the object key as the sequence of its segments, *)
(* joined by "/" in the code.  now is the value of datetime.now().         *)

\* s3 config "folder_name", default
DefaultFolder == "dp03"

\* what build_s3_path leaves when timestamp_str.split()[0] raises IndexError,
\* which "except ValueError" (line 122) does not catch
KeyRaised == <<"IndexError">>

\* lines 115-123.  the date folder: the parsed EVENT_TIMESTAMP, datetime.now()
\* when it is empty or strptime raises ValueError
date_of(message, now) ==
    LET timestamp_str == Get(message, "EVENT_TIMESTAMP", <<>>)
    IN  IF timestamp_str = <<>> THEN now
        ELSE IF timestamp_str = Blank THEN KeyRaised
        ELSE IF Len(timestamp_str) = 3 THEN timestamp_str
        ELSE now

\* line 107: self._s3_config.get("folder_name", "dp03"); "none" stands for a
\* configuration without folder_name
folder_name(configured) ==
    IF configured = "none" THEN DefaultFolder ELSE configured

\* build_s3_path under a configuration with the given folder_name
s3_path_in(configured, message, now) ==
    LET dt == date_of(message, now)
    IN  IF dt = KeyRaised THEN KeyRaised
        ELSE << folder_name(configured),
                Get(message, "EVENT_TYPE", "UNKNOWN"),
                Get(message, "ST_BOM_TYPE", "UNKNOWN"),
                Get(message, "IS_COSTED", "UNKNOWN"),
                Get(message, "OLP_PHASE", "UNKNOWN"),
                dt[1], dt[2], dt[3],
                Get(message, "ST_BOM_FILE_NAME", "") >>

\* build_s3_path under a configuration without folder_name
build_s3_path(message, now) ==
    s3_path_in("none", message, now)

----------------------------------------------------------------------------
(* The two gateway calls of process_message.  NasClient.copy_file_to_local *)
(* and S3Client.upload_from_file are called by process_message and are not *)
(* part of the source at hand; they follow the gateway contract of the     *)
(* specification (section 4.4): fetch fails with NotFound when the         *)
(* resolved path does not exist and with TransientIO for every other read  *)
(* failure; put returns the destination or raises.                         *)

copy_file_to_local(fileExists, nasOk) ==
    IF ~nasOk THEN "TransientIO"
    ELSE IF ~fileExists THEN "NotFound"
    ELSE "ok"

upload_from_file(s3Ok) ==
    IF s3Ok THEN "ok" ELSE "error"

----------------------------------------------------------------------------
(* FileTransferService.process_message.                                    *)
(*                                                                         *)
(* env is the environment of one attempt:                                  *)
(*   escape      an exception is raised by the statements before the try   *)
(*               block (lines 73-80) and leaves the handler                *)
(*   dbInsert    the ledger is reachable for insert_created                *)
(*   dbTerminal  the ledger is reachable for update_processed/_failed      *)
(*   fileExists, nasOk, s3Ok   the state of the source and of the store    *)
(*   now         datetime.now()                                            *)
(* The result holds the verdict, the ledger and the store after the        *)
(* attempt, the calls made to the ledger and to the gateways in order, the *)
(* object keys written, whether tempfile.mkdtemp was called (staged; every *)
(* exit that returns removes the directory: lines 132-133, 149-150,        *)
(* 180-181), and the exit taken (out).                                     *)

AllEnvs ==
    [escape : BOOLEAN, dbInsert : BOOLEAN, dbTerminal : BOOLEAN,
     fileExists : BOOLEAN, nasOk : BOOLEAN, s3Ok : BOOLEAN, now : Dates]

\* One environment for each run of the handler: a condition that is not reached
\* (the store when the fetch failed, everything when the call raised at once) is
\* left at TRUE, so that no two environments give the same run.
Envs ==
    { e \in AllEnvs :
        /\ e.escape => e.dbInsert /\ e.dbTerminal /\ e.nasOk
        /\ ~e.nasOk => e.fileExists
        /\ (~e.nasOk \/ ~e.fileExists) => e.s3Ok }

\* required_fields without its last entry
validate_message_three_fields(message) ==
    /\ ~Falsy(message, "MESSAGE_ID")
    /\ ~Falsy(message, "EVENT_TYPE")
    /\ ~Falsy(message, "ST_BOM_DOC_PATH")

validate_message(message) ==
    /\ ~Falsy(message, "MESSAGE_ID")
    /\ ~Falsy(message, "EVENT_TYPE")
    /\ ~Falsy(message, "ST_BOM_DOC_PATH")
    /\ ~Falsy(message, "ST_BOM_FILE_NAME")

\* the call of the handler raised: nothing was done
on_escape(led, st) ==
    [raised |-> TRUE, verdict |-> FALSE, out |-> "raise",
     ledger |-> led, store |-> st, calls |-> <<>>, puts |-> <<>>,
     staged |-> FALSE]

\* consumer.py:175-176 and 216-224: message_value.get raises before the handler
\* is called
on_not_object(led, st) ==
    [raised |-> TRUE, verdict |-> FALSE, out |-> "notobject",
     ledger |-> led, store |-> st, calls |-> <<>>, puts |-> <<>>,
     staged |-> FALSE]

\* lines 87-95: invalid message, "commit to skip"
on_invalid(led, st) ==
    [raised |-> FALSE, verdict |-> TRUE, out |-> "invalid",
     ledger |-> led, store |-> st, calls |-> <<>>, puts |-> <<>>,
     staged |-> FALSE]

\* FileNotFoundError handled as every other failure: "do not commit, will retry"
on_not_found_retried(led, st, message_id, env) ==
    [raised |-> FALSE, verdict |-> FALSE, out |-> "notfound",
     ledger |-> update_failed(led, message_id, env.dbTerminal), store |-> st,
     calls |-> <<"insert_created", "copy_file_to_local", "update_failed">>,
     puts |-> <<>>, staged |-> TRUE]

\* lines 123-135: except FileNotFoundError
on_not_found(led, st, message_id, env) ==
    [raised |-> FALSE, verdict |-> TRUE, out |-> "notfound",
     ledger |-> update_failed(led, message_id, env.dbTerminal), store |-> st,
     calls |-> <<"insert_created", "copy_file_to_local", "update_failed">>,
     puts |-> <<>>, staged |-> TRUE]

\* except Exception without the update_failed call
on_exception_silent(led, st, message_id, env, out, calls) ==
    [raised |-> FALSE, verdict |-> FALSE, out |-> out,
     ledger |-> led, store |-> st, calls |-> calls, puts |-> <<>>,
     staged |-> TRUE]

\* lines 171-187: except Exception, reached from the fetch (out = "transient")
\* and from the upload (out = "upload_failed")
on_exception(led, st, message_id, env, out, calls) ==
    [raised |-> FALSE, verdict |-> FALSE, out |-> out,
     ledger |-> update_failed(led, message_id, env.dbTerminal), store |-> st,
     calls |-> Append(calls, "update_failed"), puts |-> <<>>,
     staged |-> TRUE]

\* the upload returned, and the exception handler runs after update_processed
on_uploaded_then_failed(led, st, message_id, env, s3_path) ==
    [raised |-> FALSE, verdict |-> FALSE, out |-> "success",
     ledger |-> update_failed(update_processed(led, message_id, env.dbTerminal),
                              message_id, env.dbTerminal),
     store |-> st \cup {s3_path},
     calls |-> <<"insert_created", "copy_file_to_local", "upload_from_file",
                 "update_processed", "update_failed">>,
     puts |-> <<s3_path>>, staged |-> TRUE]

\* lines 144-169: the upload returned
on_uploaded(led, st, message_id, env, s3_path) ==
    [raised |-> FALSE, verdict |-> TRUE, out |-> "success",
     ledger |-> update_processed(led, message_id, env.dbTerminal),
     store |-> st \cup {s3_path},
     calls |-> <<"insert_created", "copy_file_to_local", "upload_from_file",
                 "update_processed">>,
     puts |-> <<s3_path>>, staged |-> TRUE]

\* line 109: build_s3_path raised inside the try block, before mkdtemp
on_key_error(led, st, message_id, env) ==
    [on_exception(led, st, message_id, env, "key_error", <<"insert_created">>)
       EXCEPT !.staged = FALSE]

\* process_message that gives up when insert_created returns False
process_message_needs_ledger(message, led, st, env) ==
    IF env.escape THEN on_escape(led, st)
    ELSE IF ~validate_message(message) THEN on_invalid(led, st)
    ELSE IF ~env.dbInsert
      THEN [raised |-> FALSE, verdict |-> FALSE, out |-> "transient",
            ledger |-> led, store |-> st, calls |-> <<"insert_created">>,
            puts |-> <<>>, staged |-> FALSE]
    ELSE
      LET message_id == message["MESSAGE_ID"]
          led1 == insert_created(led, message, env.dbInsert)
          s3_path == build_s3_path(message, env.now)
          fetched == copy_file_to_local(env.fileExists, env.nasOk)
      IN  IF fetched = "NotFound" THEN on_not_found(led1, st, message_id, env)
          ELSE IF fetched # "ok"
            THEN on_exception(led1, st, message_id, env, "transient",
                              <<"insert_created", "copy_file_to_local">>)
          ELSE IF upload_from_file(env.s3Ok) = "ok"
            THEN on_uploaded(led1, st, message_id, env, s3_path)
          ELSE on_exception(led1, st, message_id, env, "upload_failed",
                            <<"insert_created", "copy_file_to_local",
                              "upload_from_file">>)

process_message(message, led, st, env) ==
    IF env.escape THEN on_escape(led, st)
    ELSE IF ~validate_message(message) THEN on_invalid(led, st)
    ELSE
      LET message_id == message["MESSAGE_ID"]
          led1 == insert_created(led, message, env.dbInsert)
          s3_path == build_s3_path(message, env.now)
          fetched == copy_file_to_local(env.fileExists, env.nasOk)
      IN  IF s3_path = KeyRaised THEN on_key_error(led1, st, message_id, env)
          ELSE IF fetched = "NotFound" THEN on_not_found(led1, st, message_id, env)
          ELSE IF fetched # "ok"
            THEN on_exception(led1, st, message_id, env, "transient",
                              <<"insert_created", "copy_file_to_local">>)
          ELSE IF upload_from_file(env.s3Ok) = "ok"
            THEN on_uploaded(led1, st, message_id, env, s3_path)
          ELSE on_exception(led1, st, message_id, env, "upload_failed",
                            <<"insert_created", "copy_file_to_local",
                              "upload_from_file">>)

----------------------------------------------------------------------------
(* RedisClient.  An endpoint is "none" when no hostname is configured for   *)
(* it (the client object is None), else "up" or "down" (ping raises         *)
(* RedisError).  The keys of an endpoint map a MESSAGE_ID to the TTL of its *)
(* "processed:" key, 0 when the endpoint holds no such key.  err tells      *)
(* whether the command sent to the chosen endpoint raises RedisError.       *)

\* DEFAULT_TTL_SECONDS = 7 * 24 * 60 * 60
DEFAULT_TTL_SECONDS == 604800

\* the values of ttl_seconds a caller passes; -1 stands for None, -60 is a
\* negative number of seconds
TtlArgs == {-1, 0, 60, -60}

Conns == {"none", "up", "down"}

\* lines 131-147
get_active_client(r) ==
    IF r.pconn = "up" THEN "primary"
    ELSE IF r.sconn = "up" THEN "secondary"
    ELSE "none"

KeysOf(r, client) ==
    IF client = "primary" THEN r.pkeys ELSE r.skeys

\* is_processed that lets the RedisError of the command reach the caller
is_processed_unguarded(r, message_id, err) ==
    LET client == get_active_client(r)
    IN  IF client = "none" THEN [result |-> FALSE, raised |-> FALSE]
        ELSE IF err THEN [result |-> FALSE, raised |-> TRUE]
        ELSE [result |-> KeysOf(r, client)[message_id] # 0, raised |-> FALSE]

\* lines 149-182
is_processed(r, message_id, err) ==
    LET client == get_active_client(r)
    IN  IF client = "none" THEN [result |-> FALSE, raised |-> FALSE]
        ELSE IF err THEN [result |-> FALSE, raised |-> FALSE]
        ELSE [result |-> KeysOf(r, client)[message_id] # 0, raised |-> FALSE]

\* mark_processed that passes ttl_seconds on as it was given: SET without an
\* expiry when it is None (an entry that never expires is held as -1, the
\* answer of the TTL command for such a key), SETEX otherwise
mark_processed_without_default(r, message_id, ttl_seconds, err) ==
    LET client == get_active_client(r)
    IN  IF client = "none" THEN [result |-> FALSE, raised |-> FALSE, redis |-> r]
        ELSE IF err \/ ttl_seconds < -1 \/ ttl_seconds = 0
          THEN [result |-> FALSE, raised |-> FALSE, redis |-> r]
        ELSE IF client = "primary"
          THEN [result |-> TRUE, raised |-> FALSE,
                redis |-> [r EXCEPT !.pkeys[message_id] = ttl_seconds]]
        ELSE [result |-> TRUE, raised |-> FALSE,
              redis |-> [r EXCEPT !.skeys[message_id] = ttl_seconds]]

\* lines 184-227: "ttl = ttl_seconds or self.DEFAULT_TTL_SECONDS", then setex,
\* which the server refuses with an error when the expiry is not positive
mark_processed(r, message_id, ttl_seconds, err) ==
    LET client == get_active_client(r)
        ttl == IF ttl_seconds = -1 \/ ttl_seconds = 0 THEN DEFAULT_TTL_SECONDS
               ELSE ttl_seconds
    IN  IF client = "none" THEN [result |-> FALSE, raised |-> FALSE, redis |-> r]
        ELSE IF err \/ ttl < 0
          THEN [result |-> FALSE, raised |-> FALSE, redis |-> r]
        ELSE IF client = "primary"
          THEN [result |-> TRUE, raised |-> FALSE,
                redis |-> [r EXCEPT !.pkeys[message_id] = ttl]]
        ELSE [result |-> TRUE, raised |-> FALSE,
              redis |-> [r EXCEPT !.skeys[message_id] = ttl]]

\* the endpoints as the service finds them: the primary reachable and holding the
\* entries of ids, no secondary configured
RedisAt(ids) ==
    [pconn |-> "up", sconn |-> "none",
     pkeys |-> [i \in {"m1"} |-> IF i \in ids THEN DEFAULT_TTL_SECONDS ELSE 0],
     skeys |-> [i \in {"m1"} |-> 0]]

NoReply ==
    [op |-> "none", id |-> "m1", ttl |-> -1, pconn |-> "none", sconn |-> "none",
     err |-> FALSE, result |-> FALSE, raised |-> FALSE]

----------------------------------------------------------------------------
(* State *)

VARIABLES
    log,        \* the records of the topic partition, as decoded by value_deserializer
    committed,  \* broker: the committed offset of the consumer group
    position,   \* consumer: the offset of the next record poll() fetches
    batch,      \* consumer: offsets of the polled records not yet iterated
    pc,         \* consumer: "start" (main() has not reached the loop), "poll",
                \* "handle" (before handler()), "decide" (after it),
                \* "stopped" (an exception left the loop), "exited" (sys.exit(0) in
                \* the signal handler), "aborted" (sys.exit(1) in main())
    ledger,     \* NAS_File_Tracker: MESSAGE_ID -> Status of its row, or "none"
    store,      \* S3 bucket: the object keys it holds
    dedup,      \* Redis: the MESSAGE_IDs with a "processed:" key
    staging,    \* disk: offsets of the records whose staging directory is left behind
    acked,      \* offsets of the records for which the handler has returned True
    last,       \* the most recent attempt of the handler
    redis,      \* the two Redis endpoints: connection state and keys of each
    reply,      \* the most recent call of a RedisClient method and what it returned
    slept,      \* seconds the loop has slept since its last call of poll()
    cfg,        \* ConfigLoader: the connection parameters that are set (non-empty)
    health,     \* HealthCheckHandler: the installed service, the reachability of
                \* the ledger, and the most recent GET with its response
    keys,       \* S3Client.build_s3_path: an event, the configured folder, and the
                \* calls made with them
    paths,      \* NasClient: a document path and file name, and the triples
                \* parsed from their writings
    threads,    \* the consumer thread inside process_message and the health
                \* thread inside health_check, with the clients they share
    table,      \* NAS_File_Tracker as the rows it holds, and the number of
                \* deliveries of each event id
    conns,      \* the connections of the process: the KafkaConsumer and the
                \* attribute that holds it, the NAS session, the ledger
                \* connection, and the close calls made
    gateway,    \* one call of NasClient.download_file or S3Client.upload_file
                \* under its retry decorator: the attempts made and how it ended
    boot,       \* main(): whether the broker can be reached, the exception that
                \* left consume_and_process before the loop, the topics
                \* subscribed, and the status main() has exited with
    loader      \* ConfigLoader: the objects __new__ has created, _config, the
                \* configuration file, the loads made and the constructions
                \* that found _config set since the last reload(), and the
                \* last get()

\* the state outside the consumption loop
sideVars ==
    << cfg, health, keys, paths, threads, table, conns, gateway, boot, loader >>

\* the state of the consumption loop and of what it writes
coreVars ==
    << log, committed, position, batch, pc, ledger, store, dedup, staging, acked,
       last, redis, reply, slept >>

vars ==
    << coreVars, sideVars >>

\* s3_client.py lines 43-45: the parameters S3Client.connect requires
S3Params == {"end_point", "access_key", "secret_key"}

\* the parameters KafkaMessageConsumer.connect requires
KafkaParams == {"bootstrap_servers", "user_name", "secret_key"}

\* a configuration with every parameter set: the values of kafka.topic_names
\* and kafka.topic_name ("" when it is not set)
FullCfg ==
    [s3 |-> S3Params, kafka |-> KafkaParams, topic_names |-> {"t1"},
     topic_name |-> ""]

\* the configurations of the object store, the rest complete
Cfgs == {[FullCfg EXCEPT !.s3 = p] : p \in SUBSET S3Params}

\* the configurations main() can find
StartCfgs ==
    [s3 : SUBSET S3Params, kafka : SUBSET KafkaParams,
     topic_names : {{}, {"t1"}}, topic_name : {"", "t2"}]

\* S3Client.connect: False when a required parameter is missing; otherwise it
\* creates a boto3 client (no request is sent: list_buckets is commented out)
\* and returns True, or False when the creation raised
s3_connect(config, clientOk) ==
    S3Params \subseteq config.s3 /\ clientOk

Paths == {"/health", "/ready", "/metrics"}

\* the connections of the running process, nothing closed
OpenConns ==
    [ref |-> "set", consumer |-> "open", nas |-> "open", db |-> "open",
     tried |-> <<>>, failed |-> {}]

\* the event ids of the ledger table
LedgerIds == {"m1", "m2", "m3"}

\* no terminal write has returned since the last insert_created
NoWrite == [id |-> "none", status |-> "none", ok |-> FALSE]

\* no get_record has returned since the last write
NoRead == [id |-> "none", row |-> "none", up |-> FALSE]

\* an empty table, nothing delivered, no call answered
NoTable ==
    [rows |-> <<>>, deliveries |-> [id \in LedgerIds |-> 0],
     written |-> NoWrite, read |-> NoRead]

\* both threads idle, no S3 client created yet, the ledger connection unused
NoThreads ==
    [pm |-> "idle", hc |-> "idle", client |-> 0, held |-> 0, disturbed |-> FALSE]

\* no path has been resolved
NoPaths ==
    [doc |-> <<>>, file |-> <<>>, parsed |-> <<>>]

\* no call of build_s3_path has been made
NoKeys ==
    [message |-> M1, folder |-> "none", calls |-> <<>>]

\* no GET has been answered
NoRequest(service, db) ==
    [service |-> service, db |-> db, path |-> "none", status |-> 0,
     body |-> "none", seen |-> "none"]

\* main() has not reached consume_and_process
NoBoot ==
    [broker |-> TRUE, raised |-> "none", subscribed |-> {}, exited |-> FALSE,
     status |-> 0]

\* main() is inside the loop of consume_and_process, subscribed to the
\* topic of the complete configuration
Booted == [NoBoot EXCEPT !.subscribed = {"t1"}]

\* the top-level keys a component asks for
ConfigKeys == {"kafka", "absent"}

\* get() has not been called since the last construction or reload
NoGet == [asked |-> FALSE, key |-> "kafka", default |-> "d", value |-> "d"]

\* the class before the first ConfigLoader(): _instance and _config are None
NoLoader ==
    [objects |-> 0, loaded |-> FALSE, values |-> [k \in {} |-> "none"],
     file |-> "v1", loads |-> 0, reused |-> 0, reloadFailed |-> FALSE,
     calls |-> 0, got |-> NoGet]

\* the class of the running process: one object, the file loaded once
Loaded ==
    [NoLoader EXCEPT !.objects = 1, !.loaded = TRUE,
                     !.values = [k \in {"kafka"} |-> "v1"], !.loads = 1,
                     !.calls = 1]

\* no call of a gateway method has been made
NoCall ==
    [name |-> "nas", session |-> FALSE, calls |-> 0, state |-> "idle",
     outcomes |-> <<>>, error |-> "none", slept |-> 0]

\* the state outside the loop in a specification of the loop alone: a complete
\* configuration, the service installed by start_health_server, no GET yet
SideIdle ==
    /\ cfg = FullCfg
    /\ health = NoRequest(TRUE, TRUE)
    /\ keys = NoKeys
    /\ paths = NoPaths
    /\ threads = NoThreads
    /\ table = NoTable
    /\ conns = OpenConns
    /\ gateway = NoCall
    /\ boot = Booted
    /\ loader = Loaded

Offsets == 0 .. (MaxLog - 1)

Msg(o) == log[o + 1]

\* exits of process_message with verdict True / with verdict False
AckOutcomes == {"invalid", "notfound", "success"}

NackOutcomes == {"transient", "upload_failed", "key_error"}

\* the environment recorded for a run that asked nothing of it
QuietEnv ==
    [escape |-> FALSE, dbInsert |-> TRUE, dbTerminal |-> TRUE, fileExists |-> TRUE,
     nasOk |-> TRUE, s3Ok |-> TRUE, now |-> CHOOSE d \in Dates : TRUE]

NoAttempt ==
    [off |-> -1, out |-> "none", raised |-> FALSE, verdict |-> FALSE,
     calls |-> <<>>, puts |-> <<>>, staged |-> FALSE, env |-> QuietEnv,
     rowAtFetch |-> "none",
     c0 |-> 0, commit |-> "none"]

(* The state after construction: a new consumer group (no committed offset, *)
(* auto_offset_reset="earliest"), an empty ledger table and bucket.  The    *)
(* dedup store is an external Redis whose keys are written through          *)
(* RedisClient.mark_processed; what it holds when the service starts is not *)
(* decided by the service.                                                  *)
Init ==
    /\ log \in [1 .. MaxLog -> Messages]
    /\ committed = 0
    /\ position = 0
    /\ batch = <<>>
    /\ pc = "poll"
    /\ ledger = [i \in EventIds |-> "none"]
    /\ store = {}
    /\ dedup \in SUBSET {"m1"}
    /\ staging = {}
    /\ acked = {}
    /\ last = NoAttempt
    /\ redis = RedisAt(dedup)
    /\ reply = NoReply
    /\ slept = 0
    /\ SideIdle

----------------------------------------------------------------------------
(* KafkaMessageConsumer.consume_and_process *)

\* the records one poll() can return: at most max_poll_records, in offset order
PollSizes == 0 .. MaxPollRecords

\* poll() that hands its records over last first
fetch_records_reversed(pos, n) ==
    [i \in 1 .. n |-> pos + n - i]

\* line 166, 171: the records of one partition in a poll() result are in offset
\* order, and "for message in messages" iterates them in that order
fetch_records(pos, n) ==
    [i \in 1 .. n |-> pos + i - 1]

\* KafkaConsumer.poll(): fetches the next n records, deserializes them, returns
\* them and moves the position past all of them.  When value_deserializer raises
\* on one of them, the JSONDecodeError leaves poll(): it is raised outside the
\* inner try (lines 173-224) and is no KafkaError (line 226), so it leaves
\* consume_and_process.
Poll ==
    /\ pc = "poll"
    /\ \E n \in PollSizes :
         /\ position + n <= Len(log)
         /\ IF \A i \in 1 .. n : Decodable(log[position + i])
            THEN /\ batch' = fetch_records(position, n)
                 /\ position' = position + n
                 /\ pc' = IF n = 0 THEN "poll" ELSE "handle"
            ELSE /\ batch' = <<>>
                 /\ position' = position
                 /\ pc' = "stopped"
    /\ slept' = 0
    /\ UNCHANGED << sideVars, redis, reply, log, committed, ledger, store, dedup, staging, acked,
                    last >>

\* what the attempt leaves for the observer: the record at offset o was handed to
\* the handler in environment env, which returned res
Attempt(o, env, res) ==
    LET message == Msg(o)
        id == Get(message, "MESSAGE_ID", "")
        ran == res.calls # <<>>
    IN  [off |-> o, out |-> res.out, raised |-> res.raised, verdict |-> res.verdict,
         calls |-> res.calls, puts |-> res.puts, staged |-> res.staged,
         env |-> IF ran \/ res.out = "raise" THEN env ELSE QuietEnv,
         rowAtFetch |-> IF ran THEN insert_created(ledger, message, env.dbInsert)[id]
                        ELSE IF id \in DOMAIN ledger THEN ledger[id] ELSE "none",
         c0 |-> committed,
         commit |-> "pending"]

\* the loop that hands over the next record before the verdict is acted on
after_handler_next_record(attempt) ==
    "handle"

\* lines 186-188: the call of the handler is synchronous, and the statement after
\* its return is the test of its verdict
after_handler(attempt) ==
    "decide"

\* lines 171-186: success = handler(message_value, kafka_topic).  An object is
\* put only through a client that S3Client.connect could create.
ProcessMessage ==
    /\ pc = "handle"
    /\ \E env \in Envs :
         LET o == Head(batch)
             res == IF IsObject(Msg(o))
                    THEN process_message(Msg(o), ledger, store, env)
                    ELSE on_not_object(ledger, store)
         IN  /\ res.puts # <<>> => s3_connect(cfg, TRUE)
             /\ ledger' = res.ledger
             /\ store' = res.store
             /\ acked' = IF ~res.raised /\ res.verdict THEN acked \cup {o} ELSE acked
             /\ last' = Attempt(o, env, res)
             /\ pc' = after_handler(Attempt(o, env, res))
    /\ UNCHANGED << sideVars, slept, redis, reply, log, committed, position, batch, dedup, staging >>

\* KafkaConsumer.commit() without arguments commits the consumed position of
\* every assigned partition
commit_offsets(pos, com) ==
    pos

\* lines 186-224: commit() is called when the handler returned True; not when it
\* returned False, and not when it raised (except Exception)
\* commit() called whenever the handler returned, whatever it returned
should_commit_on_return(attempt) ==
    ~attempt.raised

should_commit(attempt) ==
    ~attempt.raised /\ attempt.verdict

commit_decision(attempt, pos, com) ==
    IF should_commit(attempt) THEN commit_offsets(pos, com) ELSE com

\* except Exception that leaves the loop
next_pc_stop_on_raise(attempt, rest) ==
    IF attempt.raised THEN "stopped"
    ELSE IF rest = <<>> THEN "poll" ELSE "handle"

\* lines 171, 163: after the commit decision and after a caught exception the
\* loop goes on with the next record of the batch, then with the next poll
next_pc(attempt, rest) ==
    IF rest = <<>> THEN "poll" ELSE "handle"

CommitDecision ==
    /\ pc = "decide"
    /\ committed' = commit_decision(last, position, committed)
    /\ last' = [last EXCEPT !.commit = IF should_commit(last) THEN "committed"
                                       ELSE "skipped"]
    /\ batch' = Tail(batch)
    /\ pc' = next_pc(last, Tail(batch))
    /\ UNCHANGED << sideVars, slept, redis, reply, log, position, ledger, store, dedup, staging, acked >>

\* the process stops at any point and is started again: connect() creates a new
\* consumer of the same group, which resumes at the committed offset
CrashRestart ==
    /\ position' = committed
    /\ batch' = <<>>
    /\ pc' = "poll"
    /\ UNCHANGED << sideVars, slept, redis, reply, log, committed, ledger, store, dedup, staging, acked, last >>

(* main.shutdown_handler.  main() installs it for SIGTERM and SIGINT (lines *)
(* 138-139) after KafkaMessageConsumer() was constructed (line 88), so it   *)
(* replaces _handle_shutdown.  It runs in the main thread at the point the  *)
(* signal arrives, closes the consumer (no commit: enable_auto_commit is    *)
(* False) and the service, and raises SystemExit, which no "except          *)
(* Exception" of the handler or of the loop catches.                        *)

\* KafkaMessageConsumer.close, lines 242-260: when a consumer is held, its
\* close() is called; whether it returns or raises, _consumer is set to None
consumer_close(c, fail) ==
    IF c.ref = "none" THEN c
    ELSE [c EXCEPT !.ref = "none",
                   !.consumer = IF fail THEN c.consumer ELSE "closed",
                   !.tried = Append(@, "consumer.close"),
                   !.failed = IF fail THEN @ \cup {"consumer.close"} ELSE @]

\* FileTransferService.close with both calls in one try block
service_close_one_try(c, nasFail, dbFail) ==
    IF nasFail
    THEN [c EXCEPT !.tried = Append(@, "nas.close"),
                   !.failed = @ \cup {"nas.close"}]
    ELSE [c EXCEPT !.nas = "closed",
                   !.db = IF dbFail THEN c.db ELSE "closed",
                   !.tried = @ \o << "nas.close", "db.close" >>,
                   !.failed = IF dbFail THEN @ \cup {"db.close"} ELSE @]

\* FileTransferService.close, lines 268-290: self._nas.close() and
\* self._db.close(), each in a try block of its own
service_close(c, nasFail, dbFail) ==
    [c EXCEPT !.nas = IF nasFail THEN c.nas ELSE "closed",
              !.db = IF dbFail THEN c.db ELSE "closed",
              !.tried = @ \o << "nas.close", "db.close" >>,
              !.failed = @ \cup (IF nasFail THEN {"nas.close"} ELSE {})
                           \cup (IF dbFail THEN {"db.close"} ELSE {})]

\* main.shutdown_handler, lines 127-136
shutdown_handler(c, kafkaFail, nasFail, dbFail) ==
    service_close(consumer_close(c, kafkaFail), nasFail, dbFail)

\* the outcomes of the shutdown path: each close() returns or raises
Shutdowns(c) ==
    { shutdown_handler(c, k, n, d) : k \in BOOLEAN, n \in BOOLEAN, d \in BOOLEAN }

\* the signal arrives while no handler call is in progress: during poll(), before
\* a record of the batch is handed over, or between the verdict and commit()
ShutdownBetween ==
    /\ pc \in {"poll", "handle", "decide"}
    /\ pc' = "exited"
    /\ batch' = <<>>
    /\ conns' \in Shutdowns(conns)
    /\ UNCHANGED << cfg, health, keys, paths, threads, table, gateway, boot, loader,
                    slept, redis, reply, log, committed, position,
                    ledger, store, dedup, staging, acked, last >>

\* what an attempt cut short by SystemExit leaves for the observer
Interrupted(o, dbInsert, phase) ==
    [off |-> o, out |-> "interrupted", raised |-> FALSE, verdict |-> FALSE,
     calls |-> IF phase = "fetch" THEN <<"insert_created", "copy_file_to_local">>
               ELSE <<"insert_created", "copy_file_to_local", "upload_from_file">>,
     puts |-> <<>>, staged |-> TRUE,
     env |-> [QuietEnv EXCEPT !.dbInsert = dbInsert],
     rowAtFetch |-> insert_created(ledger, Msg(o), dbInsert)[Msg(o)["MESSAGE_ID"]],
     c0 |-> committed, commit |-> "pending"]

\* the signal arrives while process_message is in copy_file_to_local (phase
\* "fetch": SystemExit passes "except FileNotFoundError" and "except Exception",
\* the directory of mkdtemp stays) or in upload_from_file (phase "upload": the
\* finally clause of lines 147-156 removes the directory; the object has been put
\* or not)
ShutdownInFlight ==
    /\ pc = "handle"
    /\ IsObject(Msg(Head(batch)))
    /\ validate_message(Msg(Head(batch)))
    /\ \E dbInsert \in BOOLEAN, phase \in {"fetch", "upload"}, put \in BOOLEAN :
         LET o == Head(batch)
             key == build_s3_path(Msg(o), QuietEnv.now)
         IN  /\ put => phase = "upload"
             /\ ledger' = insert_created(ledger, Msg(o), dbInsert)
             /\ store' = IF put THEN store \cup {key} ELSE store
             /\ staging' = IF phase = "fetch" THEN staging \cup {o} ELSE staging
             /\ last' = Interrupted(o, dbInsert, phase)
    /\ pc' = "exited"
    /\ batch' = <<>>
    /\ conns' \in Shutdowns(conns)
    /\ UNCHANGED << cfg, health, keys, paths, threads, table, gateway, boot, loader,
                    slept, redis, reply, log, committed, position,
                    dedup, acked >>

\* the process is started again after it has exited
Restart ==
    /\ pc \in {"exited", "stopped"}
    /\ position' = committed
    /\ batch' = <<>>
    /\ pc' = "poll"
    /\ conns' = OpenConns
    /\ UNCHANGED << cfg, health, keys, paths, threads, table, gateway, boot, loader,
                    slept, redis, reply, log, committed, ledger, store,
                    dedup, staging, acked, last >>

Next ==
    \/ Poll
    \/ ProcessMessage
    \/ CommitDecision
    \/ CrashRestart

Spec == Init /\ [][Next]_vars

\* the running consumer: the loop "while self._running" goes on to its next step
Running ==
    \/ Poll
    \/ ProcessMessage
    \/ CommitDecision

\* Once every record of the partition has been polled, poll() returns no record
\* (the loop over message_batch.items() at line 168 runs zero times) and the
\* while loop polls again without
\* any change of state: the consumer never seeks back, so a behaviour of the
\* running consumer ends in such empty polls.
FairSpec == Init /\ [][Running]_vars /\ WF_vars(Running)

(* The running consumer when poll() raises KafkaError (lines 226-234) *)

\* time.sleep(5)
BackoffSeconds == 5

\* the handler of KafkaError that goes on without a pause
sleep_after_error_skipped(seconds) ==
    seconds

\* lines 232-234: "Brief pause before retrying"
sleep_after_error(seconds) ==
    seconds + BackoffSeconds

\* poll() raises KafkaError: no record is returned, the position stays
PollError ==
    /\ pc = "poll"
    /\ pc' = "backoff"
    /\ slept' = 0
    /\ UNCHANGED << sideVars, redis, reply, log, committed, position, batch, ledger, store,
                    dedup, staging, acked, last >>

\* except KafkaError: log, sleep, and back to "while self._running"
Backoff ==
    /\ pc = "backoff"
    /\ slept' = sleep_after_error(slept)
    /\ pc' = "poll"
    /\ UNCHANGED << sideVars, redis, reply, log, committed, position, batch, ledger, store,
                    dedup, staging, acked, last >>

BrokerNext ==
    \/ Poll
    \/ PollError
    \/ Backoff
    \/ ProcessMessage
    \/ CommitDecision

BrokerSpec == Init /\ [][BrokerNext]_vars

\* the service under shutdown signals and restarts
SignalNext ==
    \/ Poll
    \/ ProcessMessage
    \/ CommitDecision
    \/ ShutdownBetween
    \/ ShutdownInFlight
    \/ Restart

\* a partition of valid events, nothing in the dedup store
SignalInit ==
    /\ log \in [1 .. MaxLog -> {M1}]
    /\ committed = 0
    /\ position = 0
    /\ batch = <<>>
    /\ pc = "poll"
    /\ ledger = [i \in EventIds |-> "none"]
    /\ store = {}
    /\ dedup = {}
    /\ staging = {}
    /\ acked = {}
    /\ last = NoAttempt
    /\ redis = RedisAt(dedup)
    /\ reply = NoReply
    /\ slept = 0
    /\ SideIdle

SignalSpec == SignalInit /\ [][SignalNext]_vars

\* one run of the process, from its start to its exit on a signal
ExitNext ==
    \/ Poll
    \/ ProcessMessage
    \/ CommitDecision
    \/ ShutdownBetween
    \/ ShutdownInFlight

ExitSpec == SignalInit /\ [][ExitNext]_vars

----------------------------------------------------------------------------
(* Messages of every shape _validate_message tells apart: the scenario's   *)
(* event, and the same event with one required field absent or empty.     *)

RequiredFields ==
    {"MESSAGE_ID", "EVENT_TYPE", "ST_BOM_DOC_PATH", "ST_BOM_FILE_NAME"}

Without(message, key) ==
    [k \in DOMAIN message \ {key} |-> message[k]]

Emptied(message, key) ==
    [message EXCEPT ![key] = ""]

Shapes ==
    {M1} \cup { Without(M1, k) : k \in RequiredFields }
         \cup { Emptied(M1, k) : k \in RequiredFields }

\* the running consumer on a partition that holds messages of these shapes
ShapeInit ==
    /\ log \in [1 .. MaxLog -> Shapes]
    /\ committed = 0
    /\ position = 0
    /\ batch = <<>>
    /\ pc = "poll"
    /\ ledger = [i \in EventIds |-> "none"]
    /\ store = {}
    /\ dedup = {}
    /\ staging = {}
    /\ acked = {}
    /\ last = NoAttempt
    /\ redis = RedisAt(dedup)
    /\ reply = NoReply
    /\ slept = 0
    /\ SideIdle

ShapeSpec == ShapeInit /\ [][Running]_vars

\* the running consumer on a partition that holds malformed payloads
PayloadInit ==
    /\ log \in [1 .. MaxLog -> Payloads]
    /\ committed = 0
    /\ position = 0
    /\ batch = <<>>
    /\ pc = "poll"
    /\ ledger = [i \in EventIds |-> "none"]
    /\ store = {}
    /\ dedup = {}
    /\ staging = {}
    /\ acked = {}
    /\ last = NoAttempt
    /\ redis = RedisAt(dedup)
    /\ reply = NoReply
    /\ slept = 0
    /\ SideIdle

PayloadSpec == PayloadInit /\ [][Running]_vars

----------------------------------------------------------------------------
(* The RedisClient on its own: calls of is_processed and mark_processed by  *)
(* a caller, while the endpoints fail and recover.                          *)

RedisInit ==
    /\ log = [i \in 1 .. MaxLog |-> M1]
    /\ committed = 0
    /\ position = 0
    /\ batch = <<>>
    /\ pc = "poll"
    /\ ledger = [i \in EventIds |-> "none"]
    /\ store = {}
    /\ dedup = {}
    /\ staging = {}
    /\ acked = {}
    /\ last = NoAttempt
    /\ redis \in [pconn : Conns, sconn : Conns,
                  pkeys : {[i \in EventIds |-> 0]}, skeys : {[i \in EventIds |-> 0]}]
    /\ reply = NoReply
    /\ slept = 0
    /\ SideIdle

Reply(op, message_id, err, res) ==
    [op |-> op, id |-> message_id, ttl |-> -1, pconn |-> redis.pconn,
     sconn |-> redis.sconn, err |-> err, result |-> res.result,
     raised |-> res.raised]

IsProcessedCall ==
    /\ \E message_id \in EventIds, err \in BOOLEAN :
         reply' = Reply("is_processed", message_id, err,
                        is_processed(redis, message_id, err))
    /\ UNCHANGED << sideVars, slept, redis, log, committed, position, batch, pc, ledger, store, dedup,
                    staging, acked, last >>

MarkProcessedCall ==
    /\ \E message_id \in EventIds, ttl_seconds \in TtlArgs, err \in BOOLEAN :
         LET res == mark_processed(redis, message_id, ttl_seconds, err)
         IN  /\ redis' = res.redis
             /\ reply' = [Reply("mark_processed", message_id, err, res)
                            EXCEPT !.ttl = ttl_seconds]
    /\ UNCHANGED << sideVars, slept, log, committed, position, batch, pc, ledger, store, dedup,
                    staging, acked, last >>

\* an endpoint that is configured fails or recovers
EndpointChange ==
    /\ \E p \in {"up", "down"}, s \in {"up", "down"} :
         /\ redis.pconn # "none" \/ redis.sconn # "none"
         /\ redis' = [redis EXCEPT
                        !.pconn = IF @ = "none" THEN @ ELSE p,
                        !.sconn = IF @ = "none" THEN @ ELSE s]
    /\ UNCHANGED << sideVars, slept, reply, log, committed, position, batch, pc, ledger, store,
                    dedup, staging, acked, last >>

RedisNext ==
    \/ IsProcessedCall
    \/ MarkProcessedCall
    \/ EndpointChange

RedisSpec == RedisInit /\ [][RedisNext]_vars

----------------------------------------------------------------------------
(* Startup: main() up to the call of consume_and_process *)

\* main lines 99-110: the distinct values of kafka.topic_names, or the single
\* kafka.topic_name when there are none
topics_of(config) ==
    IF config.topic_names # {} THEN config.topic_names
    ELSE IF config.topic_name # "" THEN {config.topic_name}
    ELSE {}

\* KafkaMessageConsumer.connect, lines 47-97: False when a required parameter
\* is empty, and False when KafkaConsumer(...) raised a KafkaError
kafka_connect(config, brokerOk) ==
    KafkaParams \subseteq config.kafka /\ brokerOk

\* consume_and_process that goes on after a failed connect()
consume_and_process_unchecked(config, topics, brokerOk) ==
    [raised |-> "none", subscribed |-> topics]

\* consume_and_process up to the loop, lines 150-155: connect(), then
\* subscribe(topics)
consume_and_process(config, topics, brokerOk) ==
    IF ~kafka_connect(config, brokerOk)
    THEN [raised |-> "ConnectionError", subscribed |-> {}]
    ELSE [raised |-> "none", subscribed |-> topics]

\* main lines 82-160 and FileTransferService.__init__: the service and the
\* consumer are constructed, _initialize_connections connects the ledger only
\* ("S3 connection will be established on first use"), the health server is
\* started, the topics are determined (sys.exit(1) when there are none) and
\* consume_and_process is called, whose exception ends in sys.exit(1).  No
\* parameter of the object store is read before the first upload.
startup(config, brokerOk) ==
    LET topics == topics_of(config)
        entered == consume_and_process(config, topics, brokerOk)
    IN  IF topics = {}
        THEN [pc |-> "aborted", raised |-> "none", subscribed |-> {},
              exited |-> TRUE, status |-> 1]
        ELSE IF entered.raised # "none"
          THEN [pc |-> "aborted", raised |-> entered.raised,
                subscribed |-> entered.subscribed, exited |-> TRUE, status |-> 1]
        ELSE [pc |-> "poll", raised |-> "none", subscribed |-> entered.subscribed,
              exited |-> FALSE, status |-> 0]

Main ==
    /\ pc = "start"
    /\ LET res == startup(cfg, boot.broker)
       IN  /\ pc' = res.pc
           /\ boot' = [boot EXCEPT !.raised = res.raised,
                                   !.subscribed = res.subscribed,
                                   !.exited = res.exited,
                                   !.status = res.status]
    /\ UNCHANGED << log, committed, position, batch, ledger, store, dedup, staging,
                    acked, last, redis, reply, slept, cfg, health, keys, paths,
                    threads, table, conns, gateway, loader >>

\* the process before main() runs, under every configuration and with the
\* broker reachable or not
StartInit ==
    /\ log \in [1 .. MaxLog -> Messages]
    /\ committed = 0
    /\ position = 0
    /\ batch = <<>>
    /\ pc = "start"
    /\ ledger = [i \in EventIds |-> "none"]
    /\ store = {}
    /\ dedup = {}
    /\ staging = {}
    /\ acked = {}
    /\ last = NoAttempt
    /\ redis = RedisAt(dedup)
    /\ reply = NoReply
    /\ slept = 0
    /\ cfg \in StartCfgs
    /\ health = NoRequest(FALSE, TRUE)
    /\ keys = NoKeys
    /\ paths = NoPaths
    /\ threads = NoThreads
    /\ table = NoTable
    /\ conns = OpenConns
    /\ gateway = NoCall
    /\ boot \in {[NoBoot EXCEPT !.broker = b] : b \in BOOLEAN}
    /\ loader = Loaded

StartNext ==
    \/ Main
    \/ Poll
    \/ ProcessMessage
    \/ CommitDecision

StartSpec == StartInit /\ [][StartNext]_vars

----------------------------------------------------------------------------
(* Health endpoints: main.HealthCheckHandler and                           *)
(* FileTransferService.health_check                                         *)

\* SingleStoreClient._ensure_connection: ping(reconnect=True) on the open
\* connection, connect() when there is none or the ping raised; connect()
\* returns False when the ledger is not reachable
ensure_connection(dbUp) ==
    IF dbUp THEN TRUE ELSE FALSE

Component(ok) == IF ok THEN "healthy" ELSE "unhealthy"

\* health_check that requires every component
health_check_all_components(config, dbUp, clientOk) ==
    LET components == [singlestore |-> Component(ensure_connection(dbUp)),
                       s3 |-> Component(s3_connect(config, clientOk))]
    IN  [healthy |-> components.s3 = "healthy"
                     /\ components.singlestore = "healthy",
         components |-> components]

health_check(config, dbUp, clientOk) ==
    LET components == [singlestore |-> Component(ensure_connection(dbUp)),
                       s3 |-> Component(s3_connect(config, clientOk))]
    IN  [healthy |-> components.s3 = "healthy", components |-> components]

\* _handle_ready
handle_ready(service, config, dbUp, clientOk) ==
    IF service
    THEN LET h == health_check(config, dbUp, clientOk)
         IN  [status |-> IF h.healthy THEN 200 ELSE 503, body |-> h]
    ELSE [status |-> 503,
          body |-> [healthy |-> FALSE, error |-> "Service not initialized"]]

\* _handle_health
handle_health ==
    [status |-> 200, body |-> [status |-> "healthy"]]

do_GET(path, service, config, dbUp, clientOk) ==
    IF path = "/health" THEN handle_health
    ELSE IF path = "/ready" THEN handle_ready(service, config, dbUp, clientOk)
    ELSE [status |-> 404, body |-> "none"]

\* start_health_server, line 63: the service becomes the handler's class attribute
StartHealthServer ==
    /\ ~health.service
    /\ health' = [health EXCEPT !.service = TRUE]
    /\ UNCHANGED << coreVars, cfg, keys, paths, threads, table, conns, gateway, boot, loader >>

\* the ledger becomes unreachable, or reachable again
LedgerChange ==
    /\ health' = [health EXCEPT !.db = ~health.db]
    /\ UNCHANGED << coreVars, cfg, keys, paths, threads, table, conns, gateway, boot, loader >>

\* a GET request is answered
HttpGet ==
    /\ \E path \in Paths, clientOk \in BOOLEAN :
         LET response == do_GET(path, health.service, cfg, health.db, clientOk)
         IN  health' = [health EXCEPT !.path = path,
                                      !.status = response.status,
                                      !.body = response.body,
                                      !.seen = [service |-> health.service,
                                                db |-> health.db]]
    /\ UNCHANGED << coreVars, cfg, keys, paths, threads, table, conns, gateway, boot, loader >>

\* the handler class before and after start_health_server, under every
\* configuration of the object store
HealthInit ==
    /\ log = [i \in 1 .. MaxLog |-> M1]
    /\ committed = 0
    /\ position = 0
    /\ batch = <<>>
    /\ pc = "poll"
    /\ ledger = [i \in EventIds |-> "none"]
    /\ store = {}
    /\ dedup = {}
    /\ staging = {}
    /\ acked = {}
    /\ last = NoAttempt
    /\ redis = RedisAt(dedup)
    /\ reply = NoReply
    /\ slept = 0
    /\ cfg \in Cfgs
    /\ health \in {NoRequest(FALSE, db) : db \in BOOLEAN}
    /\ keys = NoKeys
    /\ paths = NoPaths
    /\ threads = NoThreads
    /\ table = NoTable
    /\ conns = OpenConns
    /\ gateway = NoCall
    /\ boot = Booted
    /\ loader = Loaded

HealthNext ==
    \/ StartHealthServer
    \/ LedgerChange
    \/ HttpGet

HealthSpec == HealthInit /\ [][HealthNext]_vars

----------------------------------------------------------------------------
(* S3Client.build_s3_path as a function of the event, the configuration and *)
(* the clock                                                                *)

\* number of calls of build_s3_path made with one event
MaxKeyCalls == 2

OptionalKeys == {"EVENT_TYPE", "ST_BOM_TYPE", "IS_COSTED", "OLP_PHASE"}

\* the values EVENT_TIMESTAMP takes when the key is present
Timestamps == {<<>>, <<"2025", "01", "15">>, Unparseable, Blank}

\* the event with the given optional attributes present and the given timestamp
KeyMessage(present, ts) ==
    [k \in present \cup {"ST_BOM_FILE_NAME", "EVENT_TIMESTAMP"} |->
        IF k = "EVENT_TIMESTAMP" THEN ts
        ELSE IF k = "ST_BOM_FILE_NAME" THEN "f.json"
        ELSE IF k = "EVENT_TYPE" THEN "BOM"
        ELSE "v"]

\* the events with and without EVENT_TIMESTAMP
KeyMessages ==
    LET stamped == { KeyMessage(present, ts) :
                       present \in SUBSET OptionalKeys, ts \in Timestamps }
    IN  stamped \cup { Without(m, "EVENT_TIMESTAMP") : m \in stamped }

\* the s3 configuration without and with folder_name
Folders == {"none", "dp07"}

KeyInit ==
    /\ log = [i \in 1 .. MaxLog |-> M1]
    /\ committed = 0
    /\ position = 0
    /\ batch = <<>>
    /\ pc = "poll"
    /\ ledger = [i \in EventIds |-> "none"]
    /\ store = {}
    /\ dedup = {}
    /\ staging = {}
    /\ acked = {}
    /\ last = NoAttempt
    /\ redis = RedisAt(dedup)
    /\ reply = NoReply
    /\ slept = 0
    /\ cfg = FullCfg
    /\ health = NoRequest(TRUE, TRUE)
    /\ keys \in [message : KeyMessages, folder : Folders, calls : {<<>>}]
    /\ paths = NoPaths
    /\ threads = NoThreads
    /\ table = NoTable
    /\ conns = OpenConns
    /\ gateway = NoCall
    /\ boot = Booted
    /\ loader = Loaded

\* build_s3_path is called with the event on some day
BuildKey ==
    /\ Len(keys.calls) < MaxKeyCalls
    /\ \E now \in Days :
         keys' = [keys EXCEPT !.calls =
                    Append(@, [now |-> now,
                               key |-> s3_path_in(keys.folder, keys.message, now)])]
    /\ UNCHANGED << coreVars, cfg, health, paths, threads, table, conns, gateway, boot, loader >>

KeyNext ==
    \/ BuildKey

KeySpec == KeyInit /\ [][KeyNext]_vars

----------------------------------------------------------------------------
(* Source paths: FileTransferService._build_nas_path and                    *)
(* NasClient._parse_nas_path.  A string is the sequence of its characters;  *)
(* "\\" is the one-character string of a back slash.                        *)

\* length of ST_BOM_DOC_PATH and of ST_BOM_FILE_NAME
MaxDocLen == 3

MaxFileLen == 2

Chars == {"/", "\\", "a"}

Strings(n) == UNION { [1 .. k -> Chars] : k \in 0 .. n }

\* str.replace("/", "\\")
replace_slash(str) ==
    [i \in 1 .. Len(str) |-> IF str[i] = "/" THEN "\\" ELSE str[i]]

\* str.replace("\\\\", "\\"): the occurrences of two back slashes, found from the
\* left without overlap, become one
RECURSIVE replace_double(_)
replace_double(str) ==
    IF Len(str) < 2 THEN str
    ELSE IF str[1] = "\\" /\ str[2] = "\\"
      THEN << "\\" >> \o replace_double(SubSeq(str, 3, Len(str)))
    ELSE << str[1] >> \o replace_double(Tail(str))

\* str.split("\\"): the parts between back slashes, empty parts included
RECURSIVE split(_)
split(str) ==
    IF str = <<>> THEN << <<>> >>
    ELSE LET rest == split(Tail(str))
         IN  IF Head(str) = "\\" THEN << <<>> >> \o rest
             ELSE << << Head(str) >> \o Head(rest) >> \o Tail(rest)

\* "\\".join(parts)
RECURSIVE join(_)
join(parts) ==
    IF parts = <<>> THEN <<>>
    ELSE IF Len(parts) = 1 THEN parts[1]
    ELSE parts[1] \o << "\\" >> \o join(Tail(parts))

\* _build_nas_path, lines 227-235
build_nas_path(doc_path, file_name) ==
    LET replaced == replace_slash(doc_path)
        closed == IF replaced # <<>> /\ replaced[Len(replaced)] = "\\"
                  THEN replaced ELSE Append(replaced, "\\")
    IN  closed \o file_name

\* ValueError("Invalid NAS path format")
InvalidPath == << "ValueError" >>

\* _parse_nas_path, lines 48-61
parse_nas_path(full_path) ==
    LET normalized == replace_slash(replace_double(full_path))
        path == IF normalized # <<>> /\ normalized[1] = "\\"
                THEN Tail(normalized) ELSE normalized
        parts == split(path)
    IN  IF Len(parts) < 3 THEN InvalidPath
        ELSE << parts[1], parts[2], join(SubSeq(parts, 3, Len(parts))) >>

\* the ways a path is written: as given, with forward slashes only, with back
\* slashes only
Writings == {"given", "forward", "backward"}

Written(str, writing) ==
    [i \in 1 .. Len(str) |->
        IF str[i] = "a" \/ writing = "given" THEN str[i]
        ELSE IF writing = "forward" THEN "/" ELSE "\\"]

\* a document path and a file name that _validate_message accepts (not empty)
PathInit ==
    /\ log = [i \in 1 .. MaxLog |-> M1]
    /\ committed = 0
    /\ position = 0
    /\ batch = <<>>
    /\ pc = "poll"
    /\ ledger = [i \in EventIds |-> "none"]
    /\ store = {}
    /\ dedup = {}
    /\ staging = {}
    /\ acked = {}
    /\ last = NoAttempt
    /\ redis = RedisAt(dedup)
    /\ reply = NoReply
    /\ slept = 0
    /\ cfg = FullCfg
    /\ health = NoRequest(TRUE, TRUE)
    /\ keys = NoKeys
    /\ paths \in [doc : Strings(MaxDocLen) \ {<<>>},
                   file : Strings(MaxFileLen) \ {<<>>}, parsed : {<<>>}]
    /\ threads = NoThreads
    /\ table = NoTable
    /\ conns = OpenConns
    /\ gateway = NoCall
    /\ boot = Booted
    /\ loader = Loaded

\* the path of the event, in one of its writings, is built and parsed
ResolvePath ==
    /\ \E writing \in Writings \ {w \in Writings : \E i \in DOMAIN paths.parsed :
                                                     paths.parsed[i].writing = w} :
         paths' = [paths EXCEPT !.parsed =
                     Append(@, [writing |-> writing,
                                triple |-> parse_nas_path(
                                    build_nas_path(Written(paths.doc, writing),
                                                   Written(paths.file, writing)))])]
    /\ UNCHANGED << coreVars, cfg, health, keys, threads, table, conns, gateway, boot, loader >>

PathNext ==
    \/ ResolvePath

PathSpec == PathInit /\ [][PathNext]_vars

----------------------------------------------------------------------------
(* The two threads of the process.  main() runs consume_and_process, and   *)
(* with it process_message, in the main thread; start_health_server runs   *)
(* HTTPServer.serve_forever in a daemon thread, which answers one request   *)
(* at a time and calls health_check for GET /ready.  Both work on the one   *)
(* FileTransferService: on its SingleStoreClient._connection and on its     *)
(* S3Client._client.  No lock is taken anywhere.                            *)
(*                                                                          *)
(* threads.pm is where the consumer thread is: "idle", "insert" (the        *)
(* statement of insert_created is on the connection), "fetch", "upload"     *)
(* (put_object is running on the client it read from _client), "terminal"   *)
(* (the statement of update_processed or update_failed is on the            *)
(* connection).  threads.hc is where the health thread is: "idle", "ping"   *)
(* (_ensure_connection has sent its ping on the connection), "s3" (before   *)
(* S3Client.connect).  client counts the boto3 clients assigned to _client, *)
(* 0 for None; held is the one the running upload uses, 0 when none runs.   *)
(* disturbed tells that a statement and a ping were on the connection       *)
(* together and the statement failed for it.                                *)

\* number of boto3 clients S3Client.connect creates
MaxClients == 3

\* two threads on one pymysql connection at once is a data race: the statement
\* of the consumer thread completes, or fails on the packets of the ping
RaceOutcomes(t) ==
    IF t.hc = "ping" /\ t.pm \in {"insert", "terminal"}
    THEN {t.disturbed, TRUE} ELSE {t.disturbed}

\* insert_created, lines 146-181: _ensure_connection, then cursor.execute
PmInsertSend ==
    /\ threads.pm = "idle"
    /\ threads' = [threads EXCEPT !.pm = "insert"]
    /\ UNCHANGED << coreVars, cfg, health, keys, paths, table, conns, gateway, boot, loader >>

PmInsertDone ==
    /\ threads.pm = "insert"
    /\ \E d \in RaceOutcomes(threads) :
         threads' = [threads EXCEPT !.pm = "fetch", !.disturbed = d]
    /\ UNCHANGED << coreVars, cfg, health, keys, paths, table, conns, gateway, boot, loader >>

\* the upload starts: _client is created when it is None (s3_client.py lines
\* 155-157) and the request runs on the client read from it
PmUploadStart ==
    /\ threads.pm = "fetch"
    /\ LET c == IF threads.client = 0 THEN 1 ELSE threads.client
       IN  threads' = [threads EXCEPT !.pm = "upload", !.client = c, !.held = c]
    /\ UNCHANGED << coreVars, cfg, health, keys, paths, table, conns, gateway, boot, loader >>

\* the upload returns; update_processed sends its statement
PmUploadDone ==
    /\ threads.pm = "upload"
    /\ threads' = [threads EXCEPT !.pm = "terminal", !.held = 0]
    /\ UNCHANGED << coreVars, cfg, health, keys, paths, table, conns, gateway, boot, loader >>

PmTerminalDone ==
    /\ threads.pm = "terminal"
    /\ \E d \in RaceOutcomes(threads) :
         threads' = [threads EXCEPT !.pm = "idle", !.disturbed = d]
    /\ UNCHANGED << coreVars, cfg, health, keys, paths, table, conns, gateway, boot, loader >>

\* health_check, line 252: self._db._ensure_connection() pings the connection of
\* the service, whatever the consumer thread is doing with it
HcPingSend ==
    /\ threads.hc = "idle"
    /\ threads' = [threads EXCEPT !.hc = "ping"]
    /\ UNCHANGED << coreVars, cfg, health, keys, paths, table, conns, gateway, boot, loader >>

HcPingDone ==
    /\ threads.hc = "ping"
    /\ threads' = [threads EXCEPT !.hc = "s3"]
    /\ UNCHANGED << coreVars, cfg, health, keys, paths, table, conns, gateway, boot, loader >>

\* health_check, line 259: self._s3.connect() assigns a new boto3 client to
\* _client (s3_client.py line 65) when the parameters are set
HcS3Connect ==
    /\ threads.hc = "s3"
    /\ threads.client < MaxClients
    /\ threads' = [threads EXCEPT !.hc = "idle",
                                  !.client = IF s3_connect(cfg, TRUE)
                                             THEN threads.client + 1
                                             ELSE threads.client]
    /\ UNCHANGED << coreVars, cfg, health, keys, paths, table, conns, gateway, boot, loader >>

ThreadInit ==
    /\ log = [i \in 1 .. MaxLog |-> M1]
    /\ committed = 0
    /\ position = 0
    /\ batch = <<>>
    /\ pc = "poll"
    /\ ledger = [i \in EventIds |-> "none"]
    /\ store = {}
    /\ dedup = {}
    /\ staging = {}
    /\ acked = {}
    /\ last = NoAttempt
    /\ redis = RedisAt(dedup)
    /\ reply = NoReply
    /\ slept = 0
    /\ cfg = FullCfg
    /\ health = NoRequest(TRUE, TRUE)
    /\ keys = NoKeys
    /\ paths = NoPaths
    /\ threads = NoThreads
    /\ table = NoTable
    /\ conns = OpenConns
    /\ gateway = NoCall
    /\ boot = Booted
    /\ loader = Loaded

ThreadNext ==
    \/ PmInsertSend
    \/ PmInsertDone
    \/ PmUploadStart
    \/ PmUploadDone
    \/ PmTerminalDone
    \/ HcPingSend
    \/ HcPingDone
    \/ HcS3Connect

ThreadSpec == ThreadInit /\ [][ThreadNext]_vars

----------------------------------------------------------------------------
(* The ledger table as rows.  NAS_File_Tracker is an existing table (lines  *)
(* 27-31) that the client does not create; its key is on MESSAGE_ID, as the *)
(* specification's upsert-on-key says.  The statements are those of         *)
(* insert_created, update_processed and update_failed; the client has no    *)
(* DELETE statement.                                                        *)

\* deliveries of one event id
MaxDeliveries == 2

\* rows the table can hold in the model
MaxRows == 4

\* the column of the table's unique key
TableKey == "MESSAGE_ID"

RowsOf(rows, message_id) ==
    { i \in DOMAIN rows : rows[i][TableKey] = message_id }

\* INSERT into a table that has no key on MESSAGE_ID
upsert_created_no_key(rows, message_id) ==
    Append(rows, [MESSAGE_ID |-> message_id, Status |-> "Created"])

\* lines 150-158: INSERT ... ON DUPLICATE KEY UPDATE Status = VALUES(Status):
\* a new row when no row has the key, else the row of the key is set to Created
upsert_created(rows, message_id) ==
    IF RowsOf(rows, message_id) = {}
    THEN Append(rows, [MESSAGE_ID |-> message_id, Status |-> "Created"])
    ELSE [i \in DOMAIN rows |->
            IF i \in RowsOf(rows, message_id)
            THEN [rows[i] EXCEPT !.Status = "Created"] ELSE rows[i]]

\* lines 213-217, 260-264: UPDATE ... SET Status WHERE MESSAGE_ID = message_id
update_rows(rows, message_id, status) ==
    [i \in DOMAIN rows |->
        IF i \in RowsOf(rows, message_id)
        THEN [rows[i] EXCEPT !.Status = status] ELSE rows[i]]

\* an event is delivered and insert_created runs; it changes nothing when the
\* ledger is not reachable
InsertCreated ==
    /\ \E id \in LedgerIds, dbUp \in BOOLEAN :
         /\ table.deliveries[id] < MaxDeliveries
         /\ LET rows == IF dbUp THEN upsert_created(table.rows, id) ELSE table.rows
            IN  /\ Len(rows) <= MaxRows
                /\ table' = [rows |-> rows,
                             deliveries |-> [table.deliveries EXCEPT ![id] = @ + 1],
                             written |-> NoWrite, read |-> NoRead]
    /\ UNCHANGED << coreVars, cfg, health, keys, paths, threads, conns, gateway, boot, loader >>

\* lines 209-243, 256-290: what update_processed and update_failed return: False
\* when _ensure_connection fails or execute raises, True once the statement
\* has run; the number of rows it matched is not looked at
update_returns(rows, message_id, dbUp) ==
    dbUp

\* lines 324-338: SELECT * ... WHERE MESSAGE_ID = message_id, fetchone(); None
\* when the ledger is not reachable
get_record(rows, message_id, dbUp) ==
    IF dbUp /\ RowsOf(rows, message_id) # {}
    THEN rows[CHOOSE i \in RowsOf(rows, message_id) :
                \A j \in RowsOf(rows, message_id) : i <= j].Status
    ELSE "none"

\* update_processed or update_failed runs for a delivered event
UpdateStatus ==
    /\ \E id \in LedgerIds, status \in {"Processed", "Failed"}, dbUp \in BOOLEAN :
         /\ table.deliveries[id] > 0
         /\ table' = [table EXCEPT
                        !.rows = IF dbUp THEN update_rows(table.rows, id, status)
                                 ELSE table.rows,
                        !.written = [id |-> id, status |-> status,
                                     ok |-> update_returns(table.rows, id, dbUp)],
                        !.read = NoRead]
    /\ UNCHANGED << coreVars, cfg, health, keys, paths, threads, conns, gateway, boot, loader >>

\* get_record runs right after a terminal write
GetRecord ==
    /\ table.written # NoWrite
    /\ \E id \in LedgerIds, dbUp \in BOOLEAN :
         table' = [table EXCEPT
                     !.read = [id |-> id, up |-> dbUp,
                               row |-> get_record(table.rows, id, dbUp)]]
    /\ UNCHANGED << coreVars, cfg, health, keys, paths, threads, conns, gateway, boot, loader >>

LedgerInit ==
    /\ log = [i \in 1 .. MaxLog |-> M1]
    /\ committed = 0
    /\ position = 0
    /\ batch = <<>>
    /\ pc = "poll"
    /\ ledger = [i \in EventIds |-> "none"]
    /\ store = {}
    /\ dedup = {}
    /\ staging = {}
    /\ acked = {}
    /\ last = NoAttempt
    /\ redis = RedisAt(dedup)
    /\ reply = NoReply
    /\ slept = 0
    /\ cfg = FullCfg
    /\ health = NoRequest(TRUE, TRUE)
    /\ keys = NoKeys
    /\ paths = NoPaths
    /\ threads = NoThreads
    /\ table = NoTable
    /\ conns = OpenConns
    /\ gateway = NoCall
    /\ boot = Booted
    /\ loader = Loaded

LedgerNext ==
    \/ InsertCreated
    \/ UpdateStatus

LedgerSpec == LedgerInit /\ [][LedgerNext]_vars

\* the writes of the ledger together with the reads of get_record
RecordNext ==
    \/ InsertCreated
    \/ UpdateStatus
    \/ GetRecord

RecordSpec == LedgerInit /\ [][RecordNext]_vars

----------------------------------------------------------------------------
(* Vocabulary of the properties *)

\* the step that hands the record at offset o to the handler
Delivered(o) ==
    pc = "handle" /\ pc' = "decide" /\ Head(batch) = o

\* the step that takes the commit decision for the last attempt
Decided ==
    pc = "decide" /\ pc' # "decide"

\* the last attempt ran on a message with all required fields; no exception left
\* the handler and no signal cut it short
ValidAttempt ==
    /\ last.off \in Offsets
    /\ validate_message(Msg(last.off))
    /\ ~last.env.escape
    /\ last.out # "interrupted"

LastId == Msg(last.off)["MESSAGE_ID"]

\* the ledger was reachable for both writes of the last attempt
LedgerHealthy ==
    last.env.dbInsert /\ last.env.dbTerminal

\* an object of event id has been written to the store
Transferred(id) ==
    \E m \in Messages, d \in Dates :
        /\ validate_message(m)
        /\ m["MESSAGE_ID"] = id
        /\ build_s3_path(m, d) \in store

\* the destination key of the specification's scenario
ScenarioKey ==
    <<"dp03", "BOM", "UNKNOWN", "UNKNOWN", "UNKNOWN", "2025", "01", "15", "f.json">>

----------------------------------------------------------------------------
(* C1.  The committed offset of the partition never advances past a message *)
(* unless the handler returned True for that message: every record below    *)
(* the committed offset has had a True verdict, whatever the other records  *)
(* of its batch did.                                                        *)
C1_NoAckBeforeSuccess ==
    \A o \in Offsets : o < committed => o \in acked

(* C2.  At-least-once: an event whose upload failed is not acknowledged, so *)
(* that it is delivered again and can reach SUCCESS: while the last attempt *)
(* is a failed upload, the committed offset is at or before its record.     *)
C2_FailedUploadNotCommitted ==
    last.out = "upload_failed" => committed <= last.off

(* C3.  Verdict meaning.  ACK: the consumer commits, and the record is      *)
(* never handed to the handler again.  NACK: the consumer does not commit,  *)
(* and the running consumer hands the same record to the handler again on a *)
(* later poll cycle.                                                        *)
C3_AckCommits ==
    [][(Decided /\ ~last.raised /\ last.verdict) => committed' > last.off]_vars

C3_AckNotRedelivered ==
    [][\A o \in Offsets : (o \in acked /\ o < committed) => ~Delivered(o)]_vars

C3_NackNoCommit ==
    [][(Decided /\ ~last.raised /\ ~last.verdict) => committed' = committed]_vars

C3_NackRedelivered ==
    \A o \in Offsets :
        (last.off = o /\ last.out \in NackOutcomes /\ last.commit = "skipped")
          ~> (last.off = o /\ last.commit = "pending")

C3_VerdictMeaning ==
    /\ C3_AckCommits
    /\ C3_AckNotRedelivered
    /\ C3_NackNoCommit
    /\ C3_NackRedelivered

(* C4.  Crash redelivery: when the process stops after a record was         *)
(* received and before it was acknowledged (its handler has not returned    *)
(* True), the restarted consumer resumes at or before that record, so the   *)
(* record is delivered again.                                               *)
C4_CrashRedelivery ==
    [][CrashRestart =>
         \A o \in Offsets : (o < position /\ o \notin acked) => position' <= o]_vars

(* C5.  Idempotence: a delivery of an event id whose transfer has succeeded *)
(* and whose dedup entry is present returns ACK without any ledger or       *)
(* gateway call and without a store write.                                  *)
C5_Idempotence ==
    [][\A o \in Offsets :
         ( /\ Delivered(o)
           /\ validate_message(Msg(o))
           /\ Transferred(Msg(o)["MESSAGE_ID"])
           /\ Msg(o)["MESSAGE_ID"] \in dedup
           /\ ~last'.raised )
         => ( /\ last'.verdict
              /\ last'.calls = <<>>
              /\ last'.puts = <<>>
              /\ ledger' = ledger
              /\ store' = store )]_vars

----------------------------------------------------------------------------
(* Outcomes of one attempt of process_message *)

\* the ledger row of the last attempt's event after a best-effort Failed write:
\* Failed when the ledger was reachable and holds a row for the event, else the
\* row as it was before the fetch
RowAfterFailedWrite ==
    IF last.env.dbTerminal /\ last.rowAtFetch # "none" THEN "Failed"
    ELSE last.rowAtFetch

LastCall == last.calls[Len(last.calls)]

Called(name) ==
    \E i \in 1 .. Len(last.calls) : last.calls[i] = name

(* C6.  Success path: for an event with all required fields whose source    *)
(* file exists, with the source, the object store and the ledger healthy,   *)
(* process_message returns True, the ledger row of the event ends in status *)
(* Processed, and exactly one object is written, under the key built by     *)
(* build_s3_path for the event; for the scenario's event that key is        *)
(* dp03/BOM/UNKNOWN/UNKNOWN/UNKNOWN/2025/01/15/f.json.                      *)
C6_SuccessPath ==
    ( /\ ValidAttempt
      /\ last.env.fileExists /\ last.env.nasOk /\ last.env.s3Ok
      /\ LedgerHealthy )
    => ( /\ ~last.raised /\ last.verdict
         /\ ledger[LastId] = "Processed"
         /\ last.puts = << build_s3_path(Msg(last.off), last.env.now) >>
         /\ last.puts[1] \in store
         /\ (Msg(last.off) = M1 => last.puts = << ScenarioKey >>) )

C6_Witness ==
    /\ last.out = "success"
    /\ Msg(last.off) = M1
    /\ LedgerHealthy
    /\ last.commit = "committed"

C8_NotFoundState ==
    ( /\ ValidAttempt
      /\ last.env.nasOk /\ ~last.env.fileExists )
    => ( /\ ~last.raised /\ last.verdict
         /\ LastCall = "update_failed"
         /\ ledger[LastId] = RowAfterFailedWrite
         /\ (LedgerHealthy => ledger[LastId] = "Failed")
         /\ ~Called("upload_from_file")
         /\ last.puts = <<>>
         /\ last.commit # "skipped"
         /\ (last.commit = "committed" => committed > last.off) )

C8_SourceNotFound ==
    /\ []C8_NotFoundState
    /\ [][\A o \in Offsets :
            (last.off = o /\ last.out = "notfound" /\ last.commit = "committed")
            => ~Delivered(o)]_vars

C8_Witness ==
    /\ last.out = "notfound"
    /\ LedgerHealthy
    /\ ledger[LastId] = "Failed"
    /\ last.commit = "committed"
    /\ store = {}

(* C9 as stated.  Transient source failure: when the source fetch fails     *)
(* with any error other than not-found, process_message returns False and   *)
(* writes no terminal ledger status (neither Processed nor Failed) for that *)
(* attempt; the ledger row stays as it was before the fetch.                *)
C9_NoTerminalWrite ==
    (ValidAttempt /\ ~last.env.nasOk)
    => ( /\ ~last.raised /\ ~last.verdict
         /\ ~Called("update_processed")
         /\ ~Called("update_failed")
         /\ ledger[LastId] = last.rowAtFetch )

(* C9 amended.  Transient source failure: when the source fetch fails with  *)
(* any error other than not-found, process_message returns False, attempts  *)
(* no upload, writes no object and no Processed status, and issues the same *)
(* best-effort Failed write as for any other exception: the row ends Failed *)
(* when the ledger is reachable and holds a row for the event, and stays as *)
(* it was before the fetch otherwise.  The consumer does not commit.        *)
C9_TransientFetch ==
    (ValidAttempt /\ ~last.env.nasOk)
    => ( /\ ~last.raised /\ ~last.verdict
         /\ last.calls = << "insert_created", "copy_file_to_local", "update_failed" >>
         /\ last.puts = <<>>
         /\ ledger[LastId] = RowAfterFailedWrite
         /\ (LedgerHealthy => ledger[LastId] = "Failed")
         /\ last.commit # "committed"
         /\ committed = last.c0 )

C9_Witness ==
    /\ last.out = "transient"
    /\ last.rowAtFetch = "Created"
    /\ ledger[LastId] = "Failed"
    /\ last.commit = "skipped"

(* C10.  Unexpected exception: an exception raised inside the pipeline of   *)
(* process_message, other than not-found during the fetch, yields verdict   *)
(* False with a best-effort Failed ledger write; and when the handler       *)
(* itself raises, the consumer does not commit for that message and goes on *)
(* with the loop.                                                           *)
C10_UnexpectedException ==
    /\ last.out \in NackOutcomes
       => ( /\ ~last.raised /\ ~last.verdict
            /\ LastCall = "update_failed"
            /\ ledger[LastId] = RowAfterFailedWrite )
    /\ last.raised
       => ( /\ last.commit # "committed"
            /\ committed = last.c0
            /\ last.calls = <<>>
            /\ pc # "stopped" )

C10_Witness ==
    /\ last.raised
    /\ last.commit = "skipped"
    /\ pc = "handle"
    /\ Head(batch) = last.off + 1

----------------------------------------------------------------------------
(* Validation *)

\* a required field is missing or empty
Invalid(message) ==
    \E k \in RequiredFields : Falsy(message, k)

(* C11.  Validation precedes all side effects: for every message in which   *)
(* MESSAGE_ID, EVENT_TYPE, ST_BOM_DOC_PATH or ST_BOM_FILE_NAME is missing   *)
(* or empty, process_message returns True and performs no ledger write,     *)
(* creates no staging directory and makes no source or object-store call;   *)
(* the consumer commits past the message and never hands it to the handler  *)
(* again.                                                                   *)
C11_NoSideEffect ==
    \A o \in Offsets :
        (Delivered(o) /\ Invalid(Msg(o)) /\ ~last'.raised)
        => ( /\ last'.verdict
             /\ last'.calls = <<>>
             /\ last'.puts = <<>>
             /\ ~last'.staged
             /\ ledger' = ledger
             /\ store' = store
             /\ staging' = staging )

C11_Acknowledged ==
    \A o \in Offsets :
        ( /\ last.off = o /\ Invalid(Msg(o)) /\ ~last.raised
          /\ last.commit = "committed" )
        => (committed' > o /\ ~Delivered(o))

C11_ValidationFirst ==
    /\ [][C11_NoSideEffect]_vars
    /\ [][C11_Acknowledged]_vars
    /\ [](\A o \in Offsets :
            (last.off = o /\ Invalid(Msg(o)) /\ ~last.raised)
            => (last.verdict /\ last.commit # "skipped"))

C11_Witness ==
    /\ last.off = 0
    /\ Msg(0) = Emptied(M1, "EVENT_TYPE")
    /\ Msg(1) = Without(M1, "MESSAGE_ID")
    /\ last.out = "invalid"
    /\ last.commit = "committed"
    /\ committed = 1
    /\ ledger = [i \in EventIds |-> "none"]

----------------------------------------------------------------------------
(* Malformed payloads *)

Malformed(value) ==
    ~Decodable(value) \/ ~IsObject(value)

(* C12.  Malformed payload: a message whose payload cannot be decoded as    *)
(* the expected structure (not valid JSON, or JSON that is not an object)   *)
(* is acknowledged immediately: the consumption loop is not left because of *)
(* it, and once the consumer has dealt with the record its offset is        *)
(* committed, so that it is never retried.                                  *)
C12_MalformedPayload ==
    /\ pc # "stopped"
    /\ \A o \in Offsets :
         (Malformed(Msg(o)) /\ last.off = o /\ last.commit # "pending")
         => committed > o

----------------------------------------------------------------------------
(* Shutdown *)

(* C13.  Staging cleanup: whenever an attempt of process_message has ended, *)
(* by success, not-found, transient failure, unexpected exception or        *)
(* interruption by a shutdown signal, the staging directory created for it  *)
(* no longer exists; no staging directory survives into a later attempt.    *)
C13_StagingCleanup ==
    staging = {}

(* C14.  Cancellation: a shutdown signal stops the receive loop only        *)
(* between messages, never in the middle of a transfer: when the process    *)
(* has exited on the signal, the attempt that was in flight has run to its  *)
(* verdict and to its commit decision.                                      *)
C14_Cancellation ==
    pc = "exited" => (last.out # "interrupted" /\ last.commit # "pending")

----------------------------------------------------------------------------
(* Ledger and dedup store *)

(* C15.  Ledger monotonicity: the status of a ledger row follows Created -> *)
(* Processed | Failed, and a row that reached Processed is never set back   *)
(* to Created, by any delivery or redelivery of the same event id: neither  *)
(* the row written at the start of an attempt nor the row the attempt       *)
(* leaves is Created when the row was Processed before.                     *)
C15_LedgerMonotonic ==
    [][\A o \in Offsets :
         ( /\ Delivered(o)
           /\ validate_message(Msg(o))
           /\ ledger[Msg(o)["MESSAGE_ID"]] = "Processed" )
         => ( /\ last'.rowAtFetch # "Created"
              /\ ledger'[Msg(o)["MESSAGE_ID"]] # "Created" )]_vars

\* the positions of the terminal ledger writes among the calls of the last attempt
TerminalWrites ==
    { i \in 1 .. Len(last.calls) :
        last.calls[i] \in {"update_processed", "update_failed"} }

C17_LedgerNeverDecides ==
    ( /\ ValidAttempt
      /\ last.env.fileExists /\ last.env.nasOk )
    => ( /\ Called("copy_file_to_local")
         /\ Called("upload_from_file")
         /\ last.verdict <=> last.env.s3Ok
         /\ last.env.s3Ok => last.puts = << build_s3_path(Msg(last.off), last.env.now) >>
         /\ ~last.env.s3Ok => last.puts = <<>> )

C17_Witness ==
    /\ last.out = "success"
    /\ ~last.env.dbInsert
    /\ ~last.env.dbTerminal
    /\ ledger[LastId] = "none"
    /\ last.verdict
    /\ last.commit = "committed"

(* C18.  Dedup entry: after every transfer that ends in SUCCESS the         *)
(* orchestrator has marked the event id in the dedup store; and an entry    *)
(* appears in the dedup store only for an event id whose transfer has       *)
(* completed successfully.                                                  *)
C18_DedupEntry ==
    /\ [](\A o \in Offsets :
            (last.off = o /\ last.out = "success") => Msg(o)["MESSAGE_ID"] \in dedup)
    /\ [][\A id \in dedup' \ dedup :
            \E m \in Messages, d \in Dates :
                /\ validate_message(m)
                /\ m["MESSAGE_ID"] = id
                /\ build_s3_path(m, d) \in store']_vars

----------------------------------------------------------------------------
(* RedisClient *)

\* the last call found no endpoint reachable, or its command raised RedisError
Unavailable ==
    (reply.pconn # "up" /\ reply.sconn # "up") \/ reply.err

(* C19.  The dedup store is fail-open: when no Redis endpoint is reachable  *)
(* or a Redis error occurs, is_processed returns False and mark_processed   *)
(* returns False; neither raises to the caller.                             *)
C19_FailOpen ==
    reply.op \in {"is_processed", "mark_processed"}
    => ( /\ ~reply.raised
         /\ Unavailable => ~reply.result )

C19_Witness ==
    /\ reply.op = "is_processed"
    /\ reply.pconn = "down"
    /\ reply.sconn = "up"
    /\ reply.err
    /\ redis.skeys["m1"] = DEFAULT_TTL_SECONDS
    /\ ~reply.result

----------------------------------------------------------------------------
(* Broker errors *)

(* C20.  Transient fetch error: an error raised by the broker while polling *)
(* makes the loop wait a fixed backoff of 5 seconds and poll again; it does *)
(* not end consume_and_process, commits no offset, moves no position and    *)
(* hands no record to the handler, and the loop keeps running.              *)
C20_PollErrorStep ==
    (pc = "poll" /\ pc' = "backoff")
    => ( /\ committed' = committed
         /\ position' = position
         /\ batch' = <<>>
         /\ last' = last
         /\ ledger' = ledger /\ store' = store )

C20_BackoffStep ==
    pc = "backoff"
    => ( /\ pc' = "poll"
         /\ slept' = 5
         /\ committed' = committed
         /\ position' = position
         /\ last' = last )

C21_HandlerOrder ==
    [][\A o \in Offsets : Delivered(o) => last.off < o]_vars

C21_CommitOrder ==
    [][/\ committed' >= committed
       /\ committed' # committed =>
            (Decided /\ should_commit(last) /\ committed' > last.off)]_vars

C21_Ordering ==
    /\ C21_HandlerOrder
    /\ C21_CommitOrder

\* the second record succeeded and was committed after the first had succeeded
C21_Witness ==
    /\ last.off = 1
    /\ last.commit = "committed"
    /\ 0 \in acked
    /\ committed = 2

\* an attempt of the handler starts
AttemptStarts ==
    last' # last /\ last'.commit = "pending"

(* C22.  Sequential processing.  An attempt of the handler starts only when *)
(* the commit decision of the attempt before it has been taken; poll()      *)
(* fetches records only when every record of the batch before has been      *)
(* handled and decided; and while an attempt awaits its decision, it is the *)
(* attempt of the record at the head of the batch.                          *)
C22_HandlerAfterDecision ==
    [][AttemptStarts => (pc = "handle" /\ last.commit # "pending")]_vars

C22_PollAfterBatch ==
    [][(position' # position) => (batch = <<>> /\ last.commit # "pending")]_vars

C22_OneInFlight ==
    [](last.commit = "pending" =>
         (pc = "decide" /\ batch # <<>> /\ Head(batch) = last.off))

C22_Sequential ==
    /\ C22_HandlerAfterDecision
    /\ C22_PollAfterBatch
    /\ C22_OneInFlight

\* the second record of a batch is in the handler's hands after the first was
\* decided
C22_Witness ==
    /\ pc = "decide"
    /\ last.off = 1
    /\ last.commit = "pending"
    /\ Len(batch) = 1
    /\ position = 2

(* C23.  Health endpoints.  Every GET /health is answered 200.  A GET       *)
(* /ready is answered 200 when a service is installed and its health_check  *)
(* reports the s3 component healthy, and 503 in every other case, whatever  *)
(* health_check reports of the singlestore component.                       *)
C23_HealthEndpoints ==
    /\ health.path = "/health" => health.status = 200
    /\ health.path = "/ready" =>
         /\ health.status \in {200, 503}
         /\ health.status = 200 <=>
              (health.seen.service /\ health.body.components.s3 = "healthy")
         /\ ~health.seen.service => health.status = 503

\* ready while the ledger is reported unhealthy
C23_Witness ==
    /\ health.path = "/ready"
    /\ health.status = 200
    /\ health.seen.service
    /\ health.body.components.singlestore = "unhealthy"
    /\ health.body.components.s3 = "healthy"

(* C24.  Fatal startup.  While a required connection parameter of the      *)
(* object store (end_point, access_key or secret_key) is missing, the       *)
(* process does not reach the consumption loop: no record is polled, handed *)
(* to the handler or committed.                                             *)
C24_FatalStartup ==
    ~s3_connect(cfg, TRUE) =>
        /\ pc \in {"start", "aborted"}
        /\ position = 0
        /\ committed = 0
        /\ last = NoAttempt

(* C25.  Key determinism.  Any two calls of build_s3_path with the same     *)
(* event and the same configuration return the same key, whenever they are  *)
(* made, also when EVENT_TIMESTAMP is absent or does not parse.             *)
C25_KeyDeterminism ==
    \A i, j \in DOMAIN keys.calls : keys.calls[i].key = keys.calls[j].key

\* the attribute of the event, UNKNOWN when it is absent
Rendered(message, k) ==
    IF k \in DOMAIN message THEN message[k] ELSE "UNKNOWN"

\* EVENT_TIMESTAMP is present and its date part parses
Parses(message) ==
    /\ "EVENT_TIMESTAMP" \in DOMAIN message
    /\ Len(message["EVENT_TIMESTAMP"]) = 3

\* the key of the template for the event, the configured folder and the clock
TemplateKey(configured, message, now) ==
    LET date == IF Parses(message) THEN message["EVENT_TIMESTAMP"] ELSE now
    IN  << IF configured = "none" THEN "dp03" ELSE configured,
           Rendered(message, "EVENT_TYPE"), Rendered(message, "ST_BOM_TYPE"),
           Rendered(message, "IS_COSTED"), Rendered(message, "OLP_PHASE"),
           date[1], date[2], date[3], message["ST_BOM_FILE_NAME"] >>

(* C26.  Key template.  Every call of build_s3_path returns                 *)
(* folder/EVENT_TYPE/ST_BOM_TYPE/IS_COSTED/OLP_PHASE/YYYY/MM/DD/file name,  *)
(* with folder dp03 unless configured, UNKNOWN for each absent attribute,   *)
(* and the date of EVENT_TIMESTAMP when it parses, of the clock otherwise.  *)
C26_KeyTemplate ==
    \A i \in DOMAIN keys.calls :
        keys.calls[i].key = TemplateKey(keys.folder, keys.message, keys.calls[i].now)

\* the segments of a path: its maximal runs of characters that are no separator
Segments(str) ==
    LET parts == split(replace_slash(str))
    IN  SelectSeq(parts, LAMBDA part : part # <<>>)

\* the triple the segments of the path address
SegmentTriple(doc_path, file_name) ==
    LET segs == Segments(doc_path \o << "/" >> \o file_name)
    IN  IF Len(segs) < 3 THEN InvalidPath
        ELSE << segs[1], segs[2], join(SubSeq(segs, 3, Len(segs))) >>

(* C27.  Source path normalization.  Whatever separators a document path    *)
(* and file name are written with, _build_nas_path followed by              *)
(* _parse_nas_path yields one triple for all their writings: the first two  *)
(* segments as server and share, the rest as relative path; a path of fewer *)
(* than three segments is rejected.                                         *)
C27_SameTriple ==
    \A i, j \in DOMAIN paths.parsed : paths.parsed[i].triple = paths.parsed[j].triple

C27_PathNormalization ==
    /\ C27_SameTriple
    /\ \A i \in DOMAIN paths.parsed :
         paths.parsed[i].triple = SegmentTriple(paths.doc, paths.file)

(* C28.  Shared clients are safe without locking.  While the health thread  *)
(* runs health_check and the consumer thread runs process_message, a ping   *)
(* of the health check is never on the ledger connection together with a    *)
(* statement of the consumer thread, no statement fails for it, and the S3  *)
(* client a running upload uses is the one _client holds.                   *)
C28_SharedClientsSafe ==
    /\ ~(threads.hc = "ping" /\ threads.pm \in {"insert", "terminal"})
    /\ ~threads.disturbed
    /\ threads.held # 0 => threads.held = threads.client

(* C29.  One ledger row per event id.  After any deliveries and             *)
(* redeliveries the table holds at most one row of each event id, and no    *)
(* step removes a row: an event id that has a row keeps having one.         *)
C29_AtMostOneRow ==
    [](\A id \in LedgerIds : Cardinality(RowsOf(table.rows, id)) <= 1)

C29_NoRowDeleted ==
    [][\A id \in LedgerIds :
         RowsOf(table.rows, id) # {} => RowsOf(table'.rows, id) # {}]_vars

C29_OneRowPerEvent ==
    /\ C29_AtMostOneRow
    /\ C29_NoRowDeleted

\* an event id delivered twice, with its one row
C29_Witness ==
    /\ table.deliveries["m1"] = 2
    /\ Cardinality(RowsOf(table.rows, "m1")) = 1

(* C30.  Shutdown releases connections.  Once the shutdown path has run,    *)
(* the attribute holding the Kafka consumer is cleared and close() was      *)
(* called on the consumer, which is closed unless that call raised; close() *)
(* was called on the NAS client and then on the ledger client, and each of  *)
(* the two is closed unless its own close failed, whatever the other did.   *)
C30_ShutdownReleases ==
    pc = "exited" =>
        /\ conns.ref = "none"
        /\ conns.tried = << "consumer.close", "nas.close", "db.close" >>
        /\ "consumer.close" \notin conns.failed => conns.consumer = "closed"
        /\ "nas.close" \notin conns.failed => conns.nas = "closed"
        /\ "db.close" \notin conns.failed => conns.db = "closed"

\* the close of the NAS session failed and the ledger connection was closed
C30_Witness ==
    /\ pc = "exited"
    /\ "nas.close" \in conns.failed
    /\ conns.db = "closed"
    /\ conns.consumer = "closed"

(* C31.  Terminal ledger writes take effect.  When update_processed or      *)
(* update_failed has returned True for an event id, the get_record that     *)
(* follows it for that id, with the ledger reachable, returns a row with    *)
(* the status written, also when the insert_created of the attempt failed.  *)
C31_TerminalWriteVisible ==
    (table.written.ok /\ table.read.up /\ table.read.id = table.written.id)
        => table.read.row = table.written.status



----------------------------------------------------------------------------
(* The retry decorator of the gateway methods: one call of                  *)
(* NasClient.download_file or S3Client.upload_file, attempt by attempt.     *)

\* stop_after_attempt(3)
MaxAttempts == 3

\* calls of the method made by its caller, one after the other
MaxGatewayCalls == 2

Gateways == {"nas", "s3"}

\* what the SMB calls of one attempt end with once the session exists: the
\* content ("none": no exception), a socket error, a timeout, the error of
\* opening a file that does not exist, or another SMB error
NasResults == {"none", "ConnectionError", "TimeoutError", "NotFound", "SMBException"}

\* what put_object ends with: no exception, an error response of the service,
\* or an error raised by botocore before any response
S3Results == {"none", "ClientError", "BotoCoreError"}

Results(name) == IF name = "nas" THEN NasResults ELSE S3Results

\* the body of download_file: the exception one attempt raises, "none" when
\* it returns the content.  Without a session connect() is called first and
\* its False becomes a ConnectionError; both except clauses re-raise.
download_file(session, connectOk, result) ==
    IF ~session /\ ~connectOk THEN "ConnectionError" ELSE result

\* the body of upload_file: the same shape, with self._client and connect()
upload_file(client, connectOk, result) ==
    IF ~client /\ ~connectOk THEN "ConnectionError" ELSE result

\* retry_if_exception_type of the two decorators
RetryOn(name) ==
    IF name = "nas" THEN {"ConnectionError", "TimeoutError"}
    ELSE {"ClientError", "ConnectionError"}

\* a decorator that retries on every exception
should_retry_any_exception(name, exception) ==
    exception # "none"

should_retry(name, exception) ==
    exception \in RetryOn(name)

\* tenacity after an attempt: the value is returned, an exception outside the
\* retry condition is raised as it is, an exception inside it is retried after
\* a wait unless stop_after_attempt says stop, and then RetryError is raised
\* (reraise is not set)
retry(name, attempt_number, exception) ==
    IF exception = "none" THEN [state |-> "returned", error |-> "none"]
    ELSE IF ~should_retry(name, exception)
      THEN [state |-> "raised", error |-> exception]
    ELSE IF attempt_number >= MaxAttempts
      THEN [state |-> "raised", error |-> "RetryError"]
    ELSE [state |-> "waiting", error |-> "none"]

\* wait_exponential(multiplier=1, min=2, max=30): seconds before the next attempt
wait_exponential(attempt_number) ==
    LET exp == 2 ^ (attempt_number - 1)
    IN  IF exp < 2 THEN 2 ELSE IF exp > 30 THEN 30 ELSE exp

RetryInit ==
    /\ log = [i \in 1 .. MaxLog |-> M1]
    /\ committed = 0
    /\ position = 0
    /\ batch = <<>>
    /\ pc = "poll"
    /\ ledger = [i \in EventIds |-> "none"]
    /\ store = {}
    /\ dedup = {}
    /\ staging = {}
    /\ acked = {}
    /\ last = NoAttempt
    /\ redis = RedisAt(dedup)
    /\ reply = NoReply
    /\ slept = 0
    /\ cfg = FullCfg
    /\ health = NoRequest(TRUE, TRUE)
    /\ keys = NoKeys
    /\ paths = NoPaths
    /\ threads = NoThreads
    /\ table = NoTable
    /\ conns = OpenConns
    /\ gateway \in {[NoCall EXCEPT !.name = n, !.session = c] :
                      n \in Gateways, c \in BOOLEAN}
    /\ boot = Booted
    /\ loader = Loaded

\* the caller calls the method: the first attempt is about to run
CallGateway ==
    /\ gateway.state \in {"idle", "returned", "raised"}
    /\ gateway.calls < MaxGatewayCalls
    /\ gateway' = [gateway EXCEPT !.calls = @ + 1, !.state = "running",
                                  !.outcomes = <<>>, !.error = "none",
                                  !.slept = 0]
    /\ UNCHANGED << coreVars, cfg, health, keys, paths, threads, table, conns, boot, loader >>

\* one attempt: the body runs and the decorator decides what follows
AttemptGateway ==
    /\ gateway.state = "running"
    /\ \E connectOk \in BOOLEAN, result \in Results(gateway.name) :
         LET exception == IF gateway.name = "nas"
                          THEN download_file(gateway.session, connectOk, result)
                          ELSE upload_file(gateway.session, connectOk, result)
             outcomes == Append(gateway.outcomes, exception)
             next == retry(gateway.name, Len(outcomes), exception)
         IN  gateway' = [gateway EXCEPT
                            !.session = @ \/ connectOk,
                            !.outcomes = outcomes,
                            !.state = next.state,
                            !.error = next.error]
    /\ UNCHANGED << coreVars, cfg, health, keys, paths, threads, table, conns, boot, loader >>

\* the sleep between two attempts
WaitGateway ==
    /\ gateway.state = "waiting"
    /\ gateway' = [gateway EXCEPT
                      !.state = "running",
                      !.slept = @ + wait_exponential(Len(gateway.outcomes))]
    /\ UNCHANGED << coreVars, cfg, health, keys, paths, threads, table, conns, boot, loader >>

RetryNext ==
    \/ CallGateway
    \/ AttemptGateway
    \/ WaitGateway

RetrySpec == RetryInit /\ [][RetryNext]_vars

----------------------------------------------------------------------------
(* C33 *)

Failed(exception) == exception # "none"

\* C33: one call of download_file or upload_file makes at most 3 attempts;
\* when the third attempt has failed too the call has ended with an error;
\* and an attempt that finds the source file missing is the last attempt of
\* its call, the missing-file error reaching the caller as it was raised.
C33_BoundedRetry ==
    /\ Len(gateway.outcomes) <= 3
    /\ (Len(gateway.outcomes) = 3 /\ Failed(gateway.outcomes[3]))
          => (gateway.state = "raised" /\ gateway.error # "none")
    /\ \A i \in 1 .. Len(gateway.outcomes) :
          gateway.outcomes[i] = "NotFound"
             => /\ i = Len(gateway.outcomes)
                /\ gateway.state = "raised"
                /\ gateway.error = "NotFound"

\* a call has ended after three failed attempts
C33_Witness ==
    /\ gateway.state = "raised"
    /\ Len(gateway.outcomes) = 3
    /\ gateway.error = "RetryError"


----------------------------------------------------------------------------
(* ConfigLoader: constructions by the components, reload() and get(), while *)
(* the configuration file and the secret store change.                       *)

\* constructions and reloads made
MaxLoaderCalls == 4

\* the configuration file: absent, not JSON, or one of two contents
Files == {"missing", "invalid", "v1", "v2"}

\* _load_config, lines 30-44: the file is opened and parsed, and its
\* placeholders are resolved; a missing file raises FileNotFoundError, invalid
\* JSON raises ValueError, and an exception of resolve_config_secrets passes
\* through.  _config is assigned only when all of it succeeded.
load_config(l, vaultOk) ==
    IF l.file \in {"missing", "invalid"} \/ ~vaultOk THEN l
    ELSE [l EXCEPT !.loaded = TRUE,
                   !.values = [k \in {"kafka"} |-> l.file],
                   !.loads = @ + 1,
                   !.reloadFailed = FALSE]

\* __new__, lines 21-24: an object is created when _instance is None
loader_new(l) ==
    IF l.objects = 0 THEN [l EXCEPT !.objects = 1] ELSE l

\* __init__ that loads the file at every construction
loader_init_always(l, vaultOk) ==
    load_config(l, vaultOk)

\* __init__, lines 26-28
loader_init(l, vaultOk) ==
    IF ~l.loaded THEN load_config(l, vaultOk)
    ELSE [l EXCEPT !.reused = @ + 1]

\* reload, lines 82-85: _config is set to None before the file is read
reload(l, vaultOk) ==
    LET cleared == [l EXCEPT !.loaded = FALSE, !.values = [k \in {} |-> "none"],
                             !.loads = 0, !.reused = 0]
        after == load_config(cleared, vaultOk)
    IN  [after EXCEPT !.reloadFailed = ~after.loaded]

\* get, lines 46-59
get(l, key, default) ==
    IF ~l.loaded THEN default
    ELSE IF key \in DOMAIN l.values THEN l.values[key]
    ELSE default

LoaderInit ==
    /\ log = [i \in 1 .. MaxLog |-> M1]
    /\ committed = 0
    /\ position = 0
    /\ batch = <<>>
    /\ pc = "poll"
    /\ ledger = [i \in EventIds |-> "none"]
    /\ store = {}
    /\ dedup = {}
    /\ staging = {}
    /\ acked = {}
    /\ last = NoAttempt
    /\ redis = RedisAt(dedup)
    /\ reply = NoReply
    /\ slept = 0
    /\ cfg = FullCfg
    /\ health = NoRequest(TRUE, TRUE)
    /\ keys = NoKeys
    /\ paths = NoPaths
    /\ threads = NoThreads
    /\ table = NoTable
    /\ conns = OpenConns
    /\ gateway = NoCall
    /\ boot = Booted
    /\ loader \in {[NoLoader EXCEPT !.file = f] : f \in Files}

\* a component calls ConfigLoader()
Construct ==
    /\ loader.calls < MaxLoaderCalls
    /\ \E vaultOk \in BOOLEAN :
         loader' = [loader_init(loader_new(loader), vaultOk) EXCEPT
                       !.calls = @ + 1, !.got = NoGet]
    /\ UNCHANGED << coreVars, cfg, health, keys, paths, threads, table, conns,
                    gateway, boot >>

Reload ==
    /\ loader.objects > 0
    /\ loader.calls < MaxLoaderCalls
    /\ \E vaultOk \in BOOLEAN :
         loader' = [reload(loader, vaultOk) EXCEPT !.calls = @ + 1, !.got = NoGet]
    /\ UNCHANGED << coreVars, cfg, health, keys, paths, threads, table, conns,
                    gateway, boot >>

GetConfig ==
    /\ loader.objects > 0
    /\ \E key \in ConfigKeys :
         loader' = [loader EXCEPT
                      !.got = [asked |-> TRUE, key |-> key, default |-> "d",
                               value |-> get(loader, key, "d")]]
    /\ UNCHANGED << coreVars, cfg, health, keys, paths, threads, table, conns,
                    gateway, boot >>

\* the file is replaced, removed or corrupted
FileChange ==
    /\ \E f \in Files \ {loader.file} : loader' = [loader EXCEPT !.file = f]
    /\ UNCHANGED << coreVars, cfg, health, keys, paths, threads, table, conns,
                    gateway, boot >>

LoaderNext ==
    \/ Construct
    \/ Reload
    \/ GetConfig
    \/ FileChange

LoaderSpec == LoaderInit /\ [][LoaderNext]_vars

----------------------------------------------------------------------------
(* C35 *)

\* C35: all constructions of ConfigLoader share one object; the file is loaded
\* and resolved at most once between a reload() (or the start of the process)
\* and the next reload(), however many constructions are made; and after a
\* reload() that failed, get() returns the default it was given.
C35_LoadOnce ==
    /\ loader.objects <= 1
    /\ loader.loads <= 1
    /\ (loader.reloadFailed /\ loader.got.asked)
          => loader.got.value = loader.got.default

\* two constructions have found the configuration of one load, while the file
\* has changed since
C35_Witness ==
    /\ loader.reused >= 2
    /\ loader.loads = 1
    /\ loader.loaded
    /\ loader.values["kafka"] # loader.file

----------------------------------------------------------------------------
(* C32 *)

\* an endpoint holds an entry only after a mark_processed that returned True
\* (MarkProcessedCall is the one action that writes pkeys or skeys), and the
\* entries of RedisSpec do not expire
Marked(message_id) ==
    redis.pkeys[message_id] # 0 \/ redis.skeys[message_id] # 0

\* C32: read-your-write across failover: once mark_processed(id) has returned
\* True, a call of is_processed(id) made while at least one endpoint is
\* reachable, and whose command does not fail, returns True, whatever outages
\* and recoveries of the two endpoints lie between the two calls.
C32_ReadYourWrite ==
    (/\ reply.op = "is_processed"
     /\ ~reply.err
     /\ reply.pconn = "up" \/ reply.sconn = "up"
     /\ Marked(reply.id))
        => reply.result


----------------------------------------------------------------------------
(* C34 *)

\* main() has run with a Kafka configuration that lacks a required parameter,
\* with a broker that cannot be reached, or with no topic configured
BrokerUnavailable ==
    /\ pc # "start"
    /\ \/ ~(KafkaParams \subseteq cfg.kafka)
       \/ ~boot.broker
       \/ cfg.topic_names = {} /\ cfg.topic_name = ""

\* C34: when the Kafka configuration is incomplete, the connection to the
\* broker fails or no topic is configured, main() has exited with status 1,
\* nothing has been subscribed, no record has been polled, handled or
\* committed, and, when a topic is configured, consume_and_process has
\* raised ConnectionError.
C34_FatalBrokerFailure ==
    BrokerUnavailable =>
        /\ pc = "aborted"
        /\ boot.exited /\ boot.status = 1
        /\ boot.subscribed = {}
        /\ position = 0 /\ committed = 0 /\ batch = <<>>
        /\ last = NoAttempt
        /\ (cfg.topic_names # {} \/ cfg.topic_name # "")
              => boot.raised = "ConnectionError"

\* main() has exited because the broker could not be reached, with a complete
\* configuration and a topic
C34_Witness ==
    /\ pc = "aborted"
    /\ KafkaParams \subseteq cfg.kafka
    /\ cfg.topic_names # {}
    /\ ~boot.broker
    /\ boot.raised = "ConnectionError"
    /\ boot.status = 1


----------------------------------------------------------------------------
(* C36 *)

\* the expiry of the entry the last mark_processed wrote: that of the key at
\* the endpoint it was sent to
WrittenTtl ==
    IF reply.pconn = "up" THEN redis.pkeys[reply.id] ELSE redis.skeys[reply.id]

\* C36: no endpoint ever holds an entry without an expiry, and the entry a
\* mark_processed that returned True has written expires after 604800 seconds
\* when ttl_seconds was not given or was 0, and after the given number of
\* seconds otherwise.
C36_EntriesExpire ==
    /\ \A i \in EventIds : redis.pkeys[i] >= 0 /\ redis.skeys[i] >= 0
    /\ (reply.op = "mark_processed" /\ reply.result)
          => /\ WrittenTtl > 0
             /\ reply.ttl \in {-1, 0} => WrittenTtl = 604800
             /\ reply.ttl \notin {-1, 0} => WrittenTtl = reply.ttl

\* mark_processed has written an entry with ttl_seconds 0
C36_Witness ==
    /\ reply.op = "mark_processed"
    /\ reply.result
    /\ reply.ttl = 0
    /\ WrittenTtl = DEFAULT_TTL_SECONDS

============================================================================
